---- MODULE Spec2Model ----
(***************************************************************************)
(* A model of the document-to-dataset converter: the file validator        *)
(* (utils/validator.py), the text cleaner (utils/cleaner.py), the          *)
(* extractors (converters/), the formatter (utils/formatter.py) and the    *)
(* orchestrator AIDataConverter (app.py).                                  *)
(*                                                                         *)
(* Text is a sequence of characters, each a string: an ASCII character as  *)
(* itself, a character outside ASCII as its code point.  Python's None and *)
(* the empty string are both the empty sequence where only truthiness or   *)
(* emptiness is observed.                                                  *)
(***************************************************************************)
EXTENDS Integers, Sequences, FiniteSets, TLC

VARIABLES
    ctext,      \* cleaner: the text clean_text is applied to next
    copts,      \* cleaner: the options of the calls
    ccalls,     \* cleaner: the calls made so far, [in, out]
    vfs,        \* validator: the file system validate_file looks at
    vpath,      \* validator: the path given to validate_file
    vres,       \* validator: the (is_valid, message) it returned, <<>> before the call
    outdir,     \* orchestrator: the output directory, a function from path to content
    last,       \* orchestrator: the last call of process_file / process_batch
    ncalls,     \* orchestrator: the number of calls made
    ecalls,     \* extractors: the calls of extract made so far, [converter, path, fails, r]
    handles,    \* extractors: the document handles open in the process, [call, of]
    fcall       \* formatter: the last call of a formatter function, <<>> before it

vars == <<ctext, copts, ccalls, vfs, vpath, vres, outdir, last, ncalls,
          ecalls, handles, fcall>>

\* ------------------------------------------------------------------ bounds

\* the longest text of the cleaner's inputs, in tokens of Tokens
MaxTokens == 2
\* how many times in a row clean_text is applied to its own output
MaxCleanCalls == 2
\* how many calls of process_file / process_batch a behaviour makes
MaxCalls == 2
\* the longest list of files given to process_batch
MaxBatch == 2

\* ------------------------------------------------------------ characters

None == <<>>

LowerLetters ==
    <<"a","b","c","d","e","f","g","h","i","j","k","l","m",
      "n","o","p","q","r","s","t","u","v","w","x","y","z">>

UpperLetters ==
    <<"A","B","C","D","E","F","G","H","I","J","K","L","M",
      "N","O","P","Q","R","S","T","U","V","W","X","Y","Z">>

Range(s) == {s[i] : i \in DOMAIN s}

\* two characters outside ASCII: LATIN CAPITAL LETTER I WITH DOT ABOVE, a letter,
\* and COMBINING DOT ABOVE, a mark (no letter, no digit, no whitespace)
CapitalIDot == "U+0130"
CombiningDot == "U+0307"

\* [a-z], [A-Z], [0-9] / \d, \s
LowerChars == Range(LowerLetters)
UpperChars == Range(UpperLetters)
DigitChars == {"0","1","2","3","4","5","6","7","8","9"}
SpaceChars == {" ", "\t", "\n", "\r", "\f"}
AlnumChars == LowerChars \cup UpperChars \cup DigitChars
\* \w, which decides \b
WordChars == AlnumChars \cup {"_", CapitalIDot}

\* [$-_]: the range from $ to _ also holds the digits and the capitals
DollarToUnderscore ==
    {"$","%","&","'","(",")","*","+",",","-",".","/",":",";","<","=",">","?",
     "@","[","\\","]","^","_"} \cup DigitChars \cup UpperChars

\* one character of the URL body: [a-zA-Z] | [0-9] | [$-_@.&+] | [!*\\(\\),]
UrlChars ==
    AlnumChars \cup DollarToUnderscore \cup {"@",".","&","+"}
        \cup {"!","*","\\","(",")",","}

\* str.lower() of one character: the capital I with a dot becomes two characters
ToLower(c) ==
    IF c \in UpperChars
    THEN <<LowerLetters[CHOOSE i \in DOMAIN UpperLetters : UpperLetters[i] = c]>>
    ELSE IF c = CapitalIDot THEN <<"i", CombiningDot>> ELSE <<c>>

\* str.lower()
RECURSIVE Lower(_)
Lower(s) == IF s = <<>> THEN <<>> ELSE ToLower(Head(s)) \o Lower(Tail(s))

\* str.upper()
ToUpper(c) ==
    IF c \in LowerChars
    THEN UpperLetters[CHOOSE i \in DOMAIN LowerLetters : LowerLetters[i] = c]
    ELSE c

Upper(s) == [i \in DOMAIN s |-> ToUpper(s[i])]

\* the number of consecutive characters of s, from position i on, that are in S
RECURSIVE RunIn(_, _, _)
RunIn(s, i, S) ==
    IF i > Len(s) \/ s[i] \notin S THEN 0 ELSE 1 + RunIn(s, i + 1, S)

\* the number of consecutive characters of s, from position i on, not in S
RECURSIVE RunNotIn(_, _, _)
RunNotIn(s, i, S) ==
    IF i > Len(s) \/ s[i] \in S THEN 0 ELSE 1 + RunNotIn(s, i + 1, S)

\* s holds the literal lit at position i
HasAt(s, i, lit) ==
    /\ i + Len(lit) - 1 <= Len(s)
    /\ \A k \in DOMAIN lit : s[i + k - 1] = lit[k]

\* \b before position i of s (i = Len(s) + 1: at the end)
WordBoundary(s, i) ==
    LET before == i > 1 /\ i - 1 <= Len(s) /\ s[i - 1] \in WordChars
        after  == i >= 1 /\ i <= Len(s) /\ s[i] \in WordChars
    IN  before # after

\* the characters of s that are not in S (re.sub of a one-character class)
Strip(s, S) == SelectSeq(s, LAMBDA c : c \notin S)

\* ----------------------------------------------------------- the cleaner

\* length of the match of http[s]?://(?:...)+ at position i, 0 if none
UrlMatchLen(s, i) ==
    IF ~HasAt(s, i, <<"h","t","t","p">>) THEN 0
    ELSE LET j == IF HasAt(s, i + 4, <<"s">>) THEN i + 5 ELSE i + 4
         IN  IF ~HasAt(s, j, <<":","/","/">>) THEN 0
             ELSE LET n == RunIn(s, j + 3, UrlChars)
                  IN  IF n = 0 THEN 0 ELSE (j + 3 + n) - i

\* length of the match of \S+@\S+ at position i, 0 if none
EmailMatchLen(s, i) ==
    LET n == RunNotIn(s, i, SpaceChars)
    IN  IF \E j \in (i + 1)..(i + n - 2) : s[j] = "@" THEN n ELSE 0

\* length of the match of \b\d{3}[-.]?\d{3}[-.]?\d{4}\b at position i, 0 if none
PhoneMatchLen(s, i) ==
    IF ~(WordBoundary(s, i) /\ RunIn(s, i, DigitChars) >= 3) THEN 0
    ELSE LET j == IF i + 3 <= Len(s) /\ s[i + 3] \in {"-", "."} THEN i + 4 ELSE i + 3
         IN  IF RunIn(s, j, DigitChars) < 3 THEN 0
             ELSE LET k == IF j + 3 <= Len(s) /\ s[j + 3] \in {"-", "."}
                           THEN j + 4 ELSE j + 3
                  IN  IF RunIn(s, k, DigitChars) >= 4 /\ WordBoundary(s, k + 4)
                      THEN (k + 4) - i ELSE 0

\* length of the match of \b\d{10}\b at position i, 0 if none
TenDigitMatchLen(s, i) ==
    IF WordBoundary(s, i) /\ RunIn(s, i, DigitChars) >= 10 /\ WordBoundary(s, i + 10)
    THEN 10 ELSE 0

\* re.sub(pattern, '', s): the leftmost matches, left to right, removed
RECURSIVE SubUrls(_, _)
SubUrls(s, i) ==
    IF i > Len(s) THEN <<>>
    ELSE LET n == UrlMatchLen(s, i)
         IN  IF n > 0 THEN SubUrls(s, i + n) ELSE <<s[i]>> \o SubUrls(s, i + 1)

RECURSIVE SubEmails(_, _)
SubEmails(s, i) ==
    IF i > Len(s) THEN <<>>
    ELSE LET n == EmailMatchLen(s, i)
         IN  IF n > 0 THEN SubEmails(s, i + n) ELSE <<s[i]>> \o SubEmails(s, i + 1)

RECURSIVE SubPhones(_, _)
SubPhones(s, i) ==
    IF i > Len(s) THEN <<>>
    ELSE LET n == PhoneMatchLen(s, i)
         IN  IF n > 0 THEN SubPhones(s, i + n) ELSE <<s[i]>> \o SubPhones(s, i + 1)

RECURSIVE SubTenDigits(_, _)
SubTenDigits(s, i) ==
    IF i > Len(s) THEN <<>>
    ELSE LET n == TenDigitMatchLen(s, i)
         IN  IF n > 0 THEN SubTenDigits(s, i + n)
             ELSE <<s[i]>> \o SubTenDigits(s, i + 1)

\* re.sub(r'\s+', ' ', s): every run of whitespace becomes one space
RECURSIVE CollapseSpaces(_, _)
CollapseSpaces(s, i) ==
    IF i > Len(s) THEN <<>>
    ELSE LET n == RunIn(s, i, SpaceChars)
         IN  IF n > 0 THEN <<" ">> \o CollapseSpaces(s, i + n)
             ELSE <<s[i]>> \o CollapseSpaces(s, i + 1)

\* str.strip()
StripEnds(s) ==
    LET lead == RunIn(s, 1, SpaceChars)
        keep == {i \in DOMAIN s : s[i] \notin SpaceChars}
    IN  IF keep = {} THEN <<>>
        ELSE SubSeq(s, lead + 1, CHOOSE i \in keep : \A k \in keep : k <= i)

\* the seven steps of clean_text, each as the code applies it when its flag is on
RemoveUrls(s) == SubUrls(s, 1)
RemoveEmails(s) == SubEmails(s, 1)
RemovePhoneNumbers(s) == SubTenDigits(SubPhones(s, 1), 1)
RemoveSpecialChars(s) == SelectSeq(s, LAMBDA c : c \in AlnumChars \cup SpaceChars)
RemoveNumbers(s) == Strip(s, DigitChars)
RemoveExtraSpaces(s) == StripEnds(CollapseSpaces(s, 1))

\* The options argument: [none |-> TRUE] is None, [none |-> FALSE, d |-> ...] a dict
\* (a function from the keys it holds to booleans).
OptionKeys ==
    {"remove_extra_spaces", "remove_special_chars", "remove_numbers", "lowercase",
     "remove_urls", "remove_emails", "remove_phone_numbers"}

NoOptions == [none |-> TRUE, d |-> <<>>]
Options(d) == [none |-> FALSE, d |-> d]

\* the dict clean_text uses when options is None
DefaultOptions ==
    [k \in OptionKeys |-> k \in {"remove_extra_spaces", "remove_urls"}]

\* dict.get(key, default)
Get(d, key, default) == IF key \in DOMAIN d THEN d[key] ELSE default

\* options.get(flag, <the default clean_text gives that flag>)
Enabled(options, flag) ==
    LET d == IF options.none THEN DefaultOptions ELSE options.d
    IN  Get(d, flag, flag \in {"remove_urls", "remove_extra_spaces"})

\* the seven conditional steps of clean_text
UrlStep(options, t) ==
    IF Enabled(options, "remove_urls") THEN RemoveUrls(t) ELSE t
EmailStep(options, t) ==
    IF Enabled(options, "remove_emails") THEN RemoveEmails(t) ELSE t
PhoneStep(options, t) ==
    IF Enabled(options, "remove_phone_numbers") THEN RemovePhoneNumbers(t) ELSE t
SpecialCharStep(options, t) ==
    IF Enabled(options, "remove_special_chars") THEN RemoveSpecialChars(t) ELSE t
NumberStep(options, t) ==
    IF Enabled(options, "remove_numbers") THEN RemoveNumbers(t) ELSE t
LowercaseStep(options, t) ==
    IF Enabled(options, "lowercase") THEN Lower(t) ELSE t
ExtraSpaceStep(options, t) ==
    IF Enabled(options, "remove_extra_spaces") THEN RemoveExtraSpaces(t) ELSE t

\* a variant that lowercases before it strips the URLs
CleanTextLowerFirst(text, options) ==
    ExtraSpaceStep(options,
      NumberStep(options,
        SpecialCharStep(options,
          PhoneStep(options,
            EmailStep(options,
              UrlStep(options,
                LowercaseStep(options, text)))))))

\* clean_text(text, options): the steps in the order of the code, innermost first
CleanText(text, options) ==
    ExtraSpaceStep(options,
      LowercaseStep(options,
        NumberStep(options,
          SpecialCharStep(options,
            PhoneStep(options,
              EmailStep(options,
                UrlStep(options, text)))))))

\* ---------------------------------------------------------- the validator

\* A path is [base, ext]: os.path.splitext(path) gives (base, ext), the extension
\* with its leading dot, as written (any letter case).  A file system is a function
\* from the paths that exist to [size |-> bytes, ...].

SUPPORTED_EXTENSIONS ==
    { <<".","p","d","f">>, <<".","d","o","c","x">>, <<".","d","o","c">>,
      <<".","x","l","s","x">>, <<".","x","l","s">>, <<".","c","s","v">>,
      <<".","t","x","t">> }

\* SUPPORTED_EXTENSIONS[ext]
TypeLabel(ext) ==
    CASE ext = <<".","p","d","f">> -> "PDF Document"
      [] ext = <<".","d","o","c","x">> -> "Word Document"
      [] ext = <<".","d","o","c">> -> "Word Document (Legacy)"
      [] ext = <<".","x","l","s","x">> -> "Excel Spreadsheet"
      [] ext = <<".","x","l","s">> -> "Excel Spreadsheet (Legacy)"
      [] ext = <<".","c","s","v">> -> "CSV File"
      [] ext = <<".","t","x","t">> -> "Text File"

MAX_FILE_SIZE == 50 * 1024 * 1024

\* os.path.exists, os.path.getsize
PathExists(fs, path) == path \in DOMAIN fs
GetSize(fs, path) == fs[path].size

\* a variant that looks at the size before the extension
ValidateFileSizeFirst(fs, path) ==
    IF ~PathExists(fs, path)
    THEN [is_valid |-> FALSE, message |-> [text |-> "File does not exist"]]
    ELSE LET ext == Lower(path.ext)
             file_size == GetSize(fs, path) IN
         IF file_size > MAX_FILE_SIZE
         THEN [is_valid |-> FALSE,
               message |-> [text |-> "File too large", file_size |-> file_size,
                            max_size |-> MAX_FILE_SIZE]]
         ELSE IF file_size = 0
         THEN [is_valid |-> FALSE, message |-> [text |-> "File is empty"]]
         ELSE IF ext \notin SUPPORTED_EXTENSIONS
         THEN [is_valid |-> FALSE,
               message |-> [text |-> "Unsupported file type", ext |-> ext]]
         ELSE [is_valid |-> TRUE,
               message |-> [text |-> "Valid", label |-> TypeLabel(ext)]]

\* a variant whose size ceiling is exclusive
ValidateFileExclusiveMax(fs, path) ==
    IF ~PathExists(fs, path)
    THEN [is_valid |-> FALSE, message |-> [text |-> "File does not exist"]]
    ELSE LET ext == Lower(path.ext) IN
         IF ext \notin SUPPORTED_EXTENSIONS
         THEN [is_valid |-> FALSE,
               message |-> [text |-> "Unsupported file type", ext |-> ext]]
         ELSE LET file_size == GetSize(fs, path) IN
              IF file_size >= MAX_FILE_SIZE
              THEN [is_valid |-> FALSE,
                    message |-> [text |-> "File too large", file_size |-> file_size,
                                 max_size |-> MAX_FILE_SIZE]]
              ELSE IF file_size = 0
              THEN [is_valid |-> FALSE, message |-> [text |-> "File is empty"]]
              ELSE [is_valid |-> TRUE,
                    message |-> [text |-> "Valid", label |-> TypeLabel(ext)]]

ValidateFile(fs, path) ==
    IF ~PathExists(fs, path)
    THEN [is_valid |-> FALSE, message |-> [text |-> "File does not exist"]]
    ELSE LET ext == Lower(path.ext) IN
         IF ext \notin SUPPORTED_EXTENSIONS
         THEN [is_valid |-> FALSE,
               message |-> [text |-> "Unsupported file type", ext |-> ext]]
         ELSE LET file_size == GetSize(fs, path) IN
              IF file_size > MAX_FILE_SIZE
              THEN [is_valid |-> FALSE,
                    message |-> [text |-> "File too large", file_size |-> file_size,
                                 max_size |-> MAX_FILE_SIZE]]
              ELSE IF file_size = 0
              THEN [is_valid |-> FALSE, message |-> [text |-> "File is empty"]]
              ELSE [is_valid |-> TRUE,
                    message |-> [text |-> "Valid", label |-> TypeLabel(ext)]]

\* ------------------------------------------------------- Python values

\* A dict is a sequence of [k, v] pairs in insertion order, its keys distinct.
\* A cell value is a string, None or a list of strings.
Str(x) == [t |-> "str", v |-> x]
PyNone == [t |-> "none"]
List(xs) == [t |-> "list", v |-> xs]
Dict(d) == [t |-> "dict", v |-> d]
\* json.dumps(value), the JSON text of a list
Json(xs) == [t |-> "json", v |-> xs]

\* the key None of a dict (no header of the inputs is named like it)
NoneKey == "<None>"

Keys(d) == [i \in DOMAIN d |-> d[i].k]
KeySet(d) == {d[i].k : i \in DOMAIN d}
Lookup(d, key) == d[CHOOSE i \in DOMAIN d : d[i].k = key].v

\* the items of s whose position is in keep, from position i on
RECURSIVE Pick(_, _, _)
Pick(s, keep, i) ==
    IF i > Len(s) THEN <<>>
    ELSE IF i \in keep THEN <<s[i]>> \o Pick(s, keep, i + 1)
    ELSE Pick(s, keep, i + 1)

\* dict(zip(keys, values)): as long as the shorter of the two; of two equal keys the
\* first keeps its place and the last gives the value
ZipDict(keys, values) ==
    LET n == IF Len(keys) < Len(values) THEN Len(keys) ELSE Len(values)
        firsts == {i \in 1..n : \A j \in 1..(i - 1) : keys[j] # keys[i]}
        lastOf(key) == CHOOSE i \in 1..n :
                           keys[i] = key /\ \A j \in (i + 1)..n : keys[j] # key
        pairs == [i \in 1..n |-> [k |-> keys[i], v |-> values[lastOf(keys[i])]]]
    IN  Pick(pairs, firsts, 1)

\* sep.join(parts)
RECURSIVE Join(_, _)
Join(parts, sep) ==
    IF parts = <<>> THEN <<>>
    ELSE IF Len(parts) = 1 THEN parts[1]
    ELSE parts[1] \o sep \o Join(Tail(parts), sep)

\* s.split(c) for a one-character separator c
RECURSIVE Split(_, _)
Split(s, c) ==
    LET n == RunNotIn(s, 1, {c})
    IN  IF n = Len(s) THEN <<s>>
        ELSE <<SubSeq(s, 1, n)>> \o Split(SubSeq(s, n + 2, Len(s)), c)

\* len(s.split()): the number of maximal runs of non-whitespace
RECURSIVE CountWords(_, _)
CountWords(s, i) ==
    IF i > Len(s) THEN 0
    ELSE IF s[i] \in SpaceChars THEN CountWords(s, i + 1)
    ELSE 1 + CountWords(s, i + RunNotIn(s, i, SpaceChars))

WordCount(s) == CountWords(s, 1)

\* s.strip() is non-empty
NonBlank(s) == \E i \in DOMAIN s : s[i] \notin SpaceChars

\* ------------------------------------------------------- the extractors

\* What a library reads out of a file is the file's content here:
\*   kind "pdf":   corrupt, pages (texts), tables (page, grid), metadata
\*   kind "word":  corrupt, paragraphs (text, style), tables (grids), metadata
\*   kind "excel": corrupt, sheets (sheet_name, column_names, records)
\*   kind "text":  corrupt (undecodable), encoding, text or rows (csv.reader's rows)
\* An extraction record is a record whose fields are the dict's keys.
\* A content may name, in its field `fails`, the step of the extraction at which the
\* library raises: "open" (the file is opened and parsed), "text" (the pages,
\* paragraphs, sheets or characters are read), "tables" (the tables are looked
\* for), "metadata" (the document properties are read).  A corrupt file fails at
\* "open".

FailsAt(c, step) ==
    (step = "open" /\ c.corrupt) \/ ("fails" \in DOMAIN c /\ c.fails = step)

ExtractionError(what, cause, document_type) ==
    [error |-> [text |-> what, cause |-> cause], document_type |-> document_type]

\* PDFConverter._extract_tables: empty tables are skipped
PdfTables(tables) ==
    LET kept == SelectSeq(tables, LAMBDA tb : tb.grid # <<>>)
    IN  [i \in DOMAIN kept |->
            [page |-> kept[i].page, table_index |-> kept[i].index,
             rows |-> Len(kept[i].grid), columns |-> Len(kept[i].grid[1]),
             data |-> kept[i].grid]]

\* PDFConverter.extract: fitz.open, the text of every page, _extract_tables (which
\* swallows what pdfplumber raises and returns the tables it has, none here),
\* get_metadata, doc.close(); whatever else is raised is caught at the end
PDFExtract(c) ==
    IF FailsAt(c, "open")
    THEN ExtractionError("Failed to extract PDF", "cannot open", "PDF")
    ELSE IF FailsAt(c, "text")
    THEN ExtractionError("Failed to extract PDF", "cannot read page", "PDF")
    ELSE IF FailsAt(c, "metadata")
    THEN ExtractionError("Failed to extract PDF", "cannot read metadata", "PDF")
    ELSE [document_type |-> "PDF",
          total_pages |-> Len(c.pages),
          full_text |-> Join(c.pages, <<"\n", "\n">>),
          pages |-> [i \in DOMAIN c.pages |->
                        [page_number |-> i, text |-> c.pages[i],
                         word_count |-> WordCount(c.pages[i])]],
          tables |-> IF FailsAt(c, "tables") THEN <<>> ELSE PdfTables(c.tables),
          metadata |-> c.metadata]

\* the handles PDFConverter.extract leaves open when it returns: self.doc is closed
\* on the last line of the try block only, the pdfplumber handle by its with block
PDFHandles(c) ==
    IF FailsAt(c, "open") THEN {}
    ELSE IF FailsAt(c, "text") \/ FailsAt(c, "metadata") THEN {"fitz.Document"}
    ELSE {}

\* WordConverter._extract_tables
WordTables(tables) ==
    [i \in DOMAIN tables |->
        [table_index |-> i, rows |-> Len(tables[i]),
         columns |-> IF tables[i] # <<>> THEN Len(tables[i][1]) ELSE 0,
         data |-> tables[i]]]

\* WordConverter.extract: Document(path), the paragraphs, _extract_tables (which
\* swallows what is raised and returns the tables it has, none here), get_metadata
WordExtract(c) ==
    IF FailsAt(c, "open")
    THEN ExtractionError("Failed to extract Word document", "cannot open",
                         "Word Document")
    ELSE IF FailsAt(c, "text")
    THEN ExtractionError("Failed to extract Word document", "cannot read paragraph",
                         "Word Document")
    ELSE IF FailsAt(c, "metadata")
    THEN ExtractionError("Failed to extract Word document", "cannot read metadata",
                         "Word Document")
    ELSE LET kept == SelectSeq(c.paragraphs, LAMBDA p : NonBlank(p.text))
             paragraphs == [i \in DOMAIN kept |->
                               [text |-> kept[i].text, style |-> kept[i].style,
                                word_count |-> WordCount(kept[i].text)]]
             tables == IF FailsAt(c, "tables") THEN <<>> ELSE WordTables(c.tables)
         IN  [document_type |-> "Word Document",
              total_paragraphs |-> Len(paragraphs),
              total_tables |-> Len(tables),
              full_text |-> Join([i \in DOMAIN kept |-> kept[i].text], <<"\n", "\n">>),
              paragraphs |-> paragraphs,
              tables |-> tables,
              metadata |-> c.metadata]

\* the handles WordConverter.extract leaves open when it returns: Document(path)
\* reads the whole package and closes the file before it returns
WordHandles(c) == {}

\* all_data with the sheets taken last to first
RECURSIVE AllDataLastSheetFirst(_)
AllDataLastSheetFirst(sheets) ==
    IF sheets = <<>> THEN <<>>
    ELSE AllDataLastSheetFirst(Tail(sheets)) \o sheets[1].records

\* the concatenation of the sheets' records, in sheet order
RECURSIVE AllData(_)
AllData(sheets) ==
    IF sheets = <<>> THEN <<>> ELSE sheets[1].records \o AllData(Tail(sheets))

\* file_path.split('.')[-1].upper(), for a path whose only dot starts its extension
FormatLabel(path) == Upper(Tail(path.ext))

\* ExcelConverter.extract: there are no tables to look for, and get_metadata only
\* splits the path
ExcelExtract(c, path) ==
    IF FailsAt(c, "open")
    THEN ExtractionError("Failed to extract Excel file", "cannot open",
                         "Excel Spreadsheet")
    ELSE IF FailsAt(c, "text")
    THEN ExtractionError("Failed to extract Excel file", "cannot read sheet",
                         "Excel Spreadsheet")
    ELSE [document_type |-> "Excel Spreadsheet",
          total_sheets |-> Len(c.sheets),
          sheet_names |-> [i \in DOMAIN c.sheets |-> c.sheets[i].sheet_name],
          sheets |-> [i \in DOMAIN c.sheets |->
                         [sheet_name |-> c.sheets[i].sheet_name,
                          rows |-> Len(c.sheets[i].records),
                          columns |-> Len(c.sheets[i].column_names),
                          column_names |-> c.sheets[i].column_names,
                          data |-> c.sheets[i].records,
                          preview |-> SubSeq(c.sheets[i].records, 1,
                                             IF Len(c.sheets[i].records) < 10
                                             THEN Len(c.sheets[i].records) ELSE 10)]],
          all_data |-> AllData(c.sheets),
          metadata |-> [file_type |-> "Excel Spreadsheet", format |-> FormatLabel(path)]]

\* csv.DictReader: the first row is the header; an empty row is skipped; a longer
\* row keeps its extra fields as a list under the key None, a shorter row has None
\* for the missing fields
DictReaderRow(fieldnames, row) ==
    [i \in DOMAIN fieldnames |->
        [k |-> fieldnames[i],
         v |-> IF i <= Len(row) THEN Str(row[i]) ELSE PyNone]]
    \o (IF Len(row) > Len(fieldnames)
        THEN <<[k |-> NoneKey,
                v |-> List(SubSeq(row, Len(fieldnames) + 1, Len(row)))]>>
        ELSE <<>>)

DictReader(lines) ==
    IF lines = <<>> THEN [fieldnames |-> <<>>, rows |-> <<>>]
    ELSE LET body == SelectSeq(Tail(lines), LAMBDA r : r # <<>>)
         IN  [fieldnames |-> lines[1],
              rows |-> [i \in DOMAIN body |-> DictReaderRow(lines[1], body[i])]]

\* open(path, 'r', encoding=...) without newline='': the text a read gives has
\* every \r\n and every \r left turned into \n
RECURSIVE UniversalNewlines(_)
UniversalNewlines(text) ==
    IF text = <<>> THEN <<>>
    ELSE IF Head(text) = "\r"
    THEN <<"\n">> \o UniversalNewlines(IF Len(text) > 1 /\ text[2] = "\n"
                                       THEN Tail(Tail(text)) ELSE Tail(text))
    ELSE <<Head(text)>> \o UniversalNewlines(Tail(text))

\* csv.reader over the lines of such a text, one character c = text[i] at a time:
\* state is the parser's state, field and row what is gathered of the current
\* field and record, rows the records ended; an empty line is the record []
RECURSIVE CsvReader(_, _, _, _, _, _)
CsvReaderStep(text, i, c, state, field, row, rows) ==
    CASE state = "START_RECORD" /\ c = "\n" ->
            CsvReader(text, i + 1, "START_RECORD", <<>>, <<>>, Append(rows, <<>>))
      [] state = "START_RECORD" /\ c # "\n" ->
            CsvReader(text, i, "START_FIELD", <<>>, <<>>, rows)
      [] state \in {"START_FIELD", "IN_FIELD", "QUOTE_IN_QUOTED_FIELD"} /\ c = "\n" ->
            CsvReader(text, i + 1, "START_RECORD", <<>>, <<>>,
                      Append(rows, Append(row, field)))
      [] state \in {"START_FIELD", "IN_FIELD", "QUOTE_IN_QUOTED_FIELD"} /\ c = "," ->
            CsvReader(text, i + 1, "START_FIELD", <<>>, Append(row, field), rows)
      [] state = "START_FIELD" /\ c = "\"" ->
            CsvReader(text, i + 1, "IN_QUOTED_FIELD", field, row, rows)
      [] state = "IN_QUOTED_FIELD" /\ c = "\"" ->
            CsvReader(text, i + 1, "QUOTE_IN_QUOTED_FIELD", field, row, rows)
      [] state = "IN_QUOTED_FIELD" /\ c # "\"" ->
            CsvReader(text, i + 1, "IN_QUOTED_FIELD", Append(field, c), row, rows)
      [] state = "QUOTE_IN_QUOTED_FIELD" /\ c = "\"" ->
            CsvReader(text, i + 1, "IN_QUOTED_FIELD", Append(field, c), row, rows)
      [] OTHER ->
            CsvReader(text, i + 1, "IN_FIELD", Append(field, c), row, rows)

CsvReader(text, i, state, field, row, rows) ==
    IF i > Len(text)
    THEN IF state = "START_RECORD" THEN rows ELSE Append(rows, Append(row, field))
    ELSE CsvReaderStep(text, i, text[i], state, field, row, rows)

\* with open(path, 'r', ...) as file: csv.DictReader(file), on the characters of
\* the file: the header and the row mappings
ReadCsvFile(text) ==
    DictReader(CsvReader(UniversalNewlines(text), 1, "START_RECORD", <<>>, <<>>, <<>>))

\* TextConverter._extract_csv
ExtractCsv(c, path) ==
    LET r == DictReader(c.rows)
    IN  [document_type |-> "CSV File",
         encoding |-> c.encoding,
         total_rows |-> Len(r.rows),
         total_columns |-> Len(r.fieldnames),
         headers |-> r.fieldnames,
         data |-> r.rows,
         preview |-> SubSeq(r.rows, 1, IF Len(r.rows) < 10 THEN Len(r.rows) ELSE 10),
         metadata |-> [encoding |-> c.encoding, file_extension |-> FormatLabel(path)]]

\* TextConverter._extract_plain_text
ExtractPlainText(c, path) ==
    LET lines == Split(c.text, "\n")
        kept == {i \in DOMAIN lines : NonBlank(lines[i])}
        numbered == [i \in DOMAIN lines |-> [line_number |-> i, text |-> lines[i]]]
    IN  [document_type |-> "Text File",
         encoding |-> c.encoding,
         total_lines |-> Len(lines),
         total_characters |-> Len(c.text),
         word_count |-> WordCount(c.text),
         full_text |-> c.text,
         lines |-> Pick(numbered, kept, 1),
         metadata |-> [encoding |-> c.encoding, file_extension |-> FormatLabel(path)]]

\* TextConverter.extract: CSV by the path's ending, any failure caught
\* (the file is opened and read in one with block; get_metadata only splits the path)
TextExtract(c, path) ==
    IF FailsAt(c, "open") \/ FailsAt(c, "text")
    THEN ExtractionError("Failed to extract text file", "cannot decode", "Text File")
    ELSE IF Lower(path.ext) = <<".","c","s","v">> THEN ExtractCsv(c, path)
    ELSE ExtractPlainText(c, path)

\* -------------------------------------------------------- the formatter

\* json.dumps(data, indent=2, ensure_ascii=False, default=str): the serialized
\* text is held as the structure it serializes
ToJson(data) == [format |-> "json", indent |-> 2, data |-> data]

\* to_xml(data): the serialized text is held as the structure it serializes
ToXml(data) == [format |-> "xml", root |-> "document", data |-> data]

\* the number of leading rows of data that DictWriter.writerow accepts: a row with a
\* key outside fieldnames raises ValueError
RECURSIVE Writable(_, _, _)
Writable(data, fields, i) ==
    IF i > Len(data) \/ ~(KeySet(data[i]) \subseteq fields) THEN i - 1
    ELSE Writable(data, fields, i + 1)

\* the cell csv writes for a value: None is the empty field, a list its JSON text
CsvCell(value) ==
    CASE value.t = "none" -> Str("")
      [] value.t = "list" -> Json(value.v)
      [] OTHER -> value

\* the line DictWriter.writerow writes: the values in the order of fieldnames, the
\* empty field for a key the row lacks
CsvLine(fieldnames, row) ==
    [i \in DOMAIN fieldnames |->
        IF fieldnames[i] \in KeySet(row) THEN CsvCell(Lookup(row, fieldnames[i]))
        ELSE Str("")]

\* to_csv(data, output_path) on the output directory out: what it returns and the
\* directory afterwards.  The file is opened for writing (created or truncated),
\* the header is written, then row after row; an exception ends the writing, the
\* file keeps what was written, and the error text is returned in place of the path.
ToCsv(out, data, output_path) ==
    IF data = <<>>
    THEN [ok |-> FALSE, ret |-> [text |-> "No data to convert to CSV"], out |-> out]
    ELSE LET fieldnames == Keys(data[1])
             n == Writable(data, KeySet(data[1]), 1)
             file == [format |-> "csv",
                      lines |-> <<[i \in DOMAIN fieldnames |->
                                      IF fieldnames[i] = NoneKey THEN Str("")
                                      ELSE Str(fieldnames[i])]>>
                                \o [i \in 1..n |-> CsvLine(fieldnames, data[i])]]
             written == [p \in DOMAIN out \cup {output_path} |->
                            IF p = output_path THEN file ELSE out[p]]
         IN  IF n = Len(data)
             THEN [ok |-> TRUE, ret |-> output_path, out |-> written]
             ELSE [ok |-> FALSE, ret |-> [text |-> "Error creating CSV"],
                   out |-> written]

\* ---- the serialized texts, character by character

\* The characters of a key or value that is held as one string: the strings of
\* more than one character are spelled out, any other string is its own one
\* character, "" has none
Chars(s) ==
    CASE s = "" -> <<>>
      [] s = "x,y" -> <<"x", ",", "y">>
      [] s = "q\"r" -> <<"q", "\"", "r">>
      [] s = "x\ny" -> <<"x", "\n", "y">>
      [] s = "x\ry" -> <<"x", "\r", "y">>
      [] s = " x " -> <<" ", "x", " ">>
      [] s = "a b" -> <<"a", " ", "b">>
      [] s = "a-b" -> <<"a", "-", "b">>
      [] s = "x<y" -> <<"x", "<", "y">>
      [] s = "</r><r>" -> <<"<", "/", "r", ">", "<", "r", ">">>
      [] s = "<b>" -> <<"<", "b", ">">>
      [] s = "</k><k>" -> <<"<", "/", "k", ">", "<", "k", ">">>
      [] s = "[('a', '1')]" ->
            <<"[", "(", "'", "a", "'", ",", " ", "'", "1", "'", ")", "]">>
      [] OTHER -> <<s>>

\* csv.writer, QUOTE_MINIMAL: a field is quoted when it holds the delimiter, the
\* quote character or a character of a line ending, and when it is the empty
\* only field of its record; inside the quotes a quote character is doubled
RECURSIVE DoubleQuotes(_)
DoubleQuotes(t) ==
    IF t = <<>> THEN <<>>
    ELSE (IF Head(t) = "\"" THEN <<"\"", "\"">> ELSE <<Head(t)>>)
             \o DoubleQuotes(Tail(t))

CsvField(t, alone) ==
    IF (\E i \in DOMAIN t : t[i] \in {",", "\"", "\r", "\n"}) \/ (t = <<>> /\ alone)
    THEN <<"\"">> \o DoubleQuotes(t) \o <<"\"">>
    ELSE t

\* writer.writerow: the fields joined by commas, then the line terminator \r\n
CsvRecordText(fields) ==
    Join([i \in DOMAIN fields |-> CsvField(fields[i], Len(fields) = 1)], <<",">>)
        \o <<"\r", "\n">>

\* the characters of the file to_csv wrote (opened with newline=''): lines are
\* the records written, their cells strings
RECURSIVE CsvFileText(_)
CsvFileText(lines) ==
    IF lines = <<>> THEN <<>>
    ELSE CsvRecordText([i \in DOMAIN lines[1] |-> Chars(lines[1][i].v)])
             \o CsvFileText(Tail(lines))

\* to_xml on a dict held as its (key, value) pairs in order, a value a string,
\* None, a list or a dict; the text it returns, character by character.

\* key.replace(' ', '_').replace('-', '_')
SafeKey(key) ==
    [i \in DOMAIN Chars(key) |->
        IF Chars(key)[i] \in {" ", "-"} THEN "_" ELSE Chars(key)[i]]

\* f"{value}" for a value that is no dict and no list
Formatted(value) ==
    IF value.t = "none" THEN <<"N", "o", "n", "e">> ELSE Chars(value.v)

\* "  " * indent_level
Indent(indent_level) == [i \in 1..(2 * indent_level) |-> " "]

\* f"<{tag}>{text}</{tag}>"
XmlElement(tag, text) ==
    <<"<">> \o tag \o <<">">> \o text \o <<"<", "/">> \o tag \o <<">">>

\* key.replace raises AttributeError on the key None: whether a key reached by
\* to_xml in the pairs d is None
RECURSIVE XmlRaises(_)
XmlRaisesAt(value) ==
    CASE value.t = "dict" -> XmlRaises(value.v)
      [] value.t = "list" ->
            \E j \in DOMAIN value.v : value.v[j].t = "dict" /\ XmlRaises(value.v[j].v)
      [] OTHER -> FALSE

XmlRaises(d) ==
    \E i \in DOMAIN d : d[i].k = NoneKey \/ XmlRaisesAt(d[i].v)

\* the lines the loop over d.items() appends from the i-th pair on; indent is the
\* indentation of the enclosing element, level the indent_level handed on to the
\* helper for a nested dict (2 in to_xml, indent_level + 1 in the helper)
RECURSIVE XmlPairs(_, _, _, _)
RECURSIVE XmlItems(_, _, _, _, _)
RECURSIVE DictToXmlHelper(_, _, _)

\* dict_to_xml_helper(d, tag, indent_level)
DictToXmlHelper(d, tag, indent_level) ==
    <<"<">> \o tag \o <<">", "\n">>
        \o XmlPairs(d, 1, Indent(indent_level), indent_level + 1)
        \o Indent(indent_level) \o <<"<", "/">> \o tag \o <<">">>

XmlItems(items, j, safe_key, indent, level) ==
    IF j > Len(items) THEN <<>>
    ELSE indent \o <<" ", " ">>
             \o (IF items[j].t = "dict"
                 THEN DictToXmlHelper(items[j].v, safe_key, level)
                 ELSE XmlElement(safe_key, Formatted(items[j])))
             \o <<"\n">>
             \o XmlItems(items, j + 1, safe_key, indent, level)

XmlPairs(d, i, indent, level) ==
    IF i > Len(d) THEN <<>>
    ELSE (CASE d[i].v.t = "dict" ->
                  indent \o <<" ", " ">>
                      \o DictToXmlHelper(d[i].v.v, SafeKey(d[i].k), level) \o <<"\n">>
            [] d[i].v.t = "list" ->
                  XmlItems(d[i].v.v, 1, SafeKey(d[i].k), indent, level)
            [] OTHER ->
                  indent \o <<" ", " ">>
                      \o XmlElement(SafeKey(d[i].k), Formatted(d[i].v)) \o <<"\n">>)
             \o XmlPairs(d, i + 1, indent, level)

XmlDeclaration ==
    <<"<","?","x","m","l"," ","v","e","r","s","i","o","n","=","\"","1",".","0","\"",
      " ","e","n","c","o","d","i","n","g","=","\"","U","T","F","-","8","\"","?",">">>

\* to_xml(data, root_name): the declaration, a newline, then dict_to_xml(data,
\* root_name); raises when a key is None
ToXmlText(data, root_name) ==
    IF XmlRaises(data) THEN [raised |-> "AttributeError", text |-> <<>>]
    ELSE [raised |-> "",
          text |-> XmlDeclaration \o <<"\n", "<">> \o Chars(root_name) \o <<">", "\n">>
                       \o XmlPairs(data, 1, <<>>, 2)
                       \o <<"<", "/">> \o Chars(root_name) \o <<">">>]

\* a variant whose has_tables only looks for the key
CreateAiTrainingFormatTablesKey(data) ==
    [input_text |-> IF "full_text" \in DOMAIN data THEN data.full_text ELSE <<>>,
     metadata |-> IF "metadata" \in DOMAIN data THEN <<data.metadata>> ELSE <<>>,
     features |->
        [document_type |-> IF "document_type" \in DOMAIN data
                           THEN data.document_type ELSE "unknown",
         word_count |-> IF "full_text" \in DOMAIN data
                        THEN WordCount(data.full_text) ELSE 0,
         has_tables |-> "tables" \in DOMAIN data,
         has_structure |-> "pages" \in DOMAIN data \/ "paragraphs" \in DOMAIN data],
     structured_data |->
        IF "tables" \in DOMAIN data THEN data.tables
        ELSE IF "data" \in DOMAIN data THEN data.data
        ELSE <<>>]

\* create_ai_training_format(data)
CreateAiTrainingFormat(data) ==
    [input_text |-> IF "full_text" \in DOMAIN data THEN data.full_text ELSE <<>>,
     metadata |-> IF "metadata" \in DOMAIN data THEN <<data.metadata>> ELSE <<>>,
     features |->
        [document_type |-> IF "document_type" \in DOMAIN data
                           THEN data.document_type ELSE "unknown",
         word_count |-> IF "full_text" \in DOMAIN data
                        THEN WordCount(data.full_text) ELSE 0,
         has_tables |-> "tables" \in DOMAIN data /\ Len(data.tables) > 0,
         has_structure |-> "pages" \in DOMAIN data \/ "paragraphs" \in DOMAIN data],
     structured_data |->
        IF "tables" \in DOMAIN data THEN data.tables
        ELSE IF "data" \in DOMAIN data THEN data.data
        ELSE <<>>]

\* get_statistics(data); the page or paragraph count is held in `sections`
GetStatistics(data) ==
    [document_type |-> IF "document_type" \in DOMAIN data
                       THEN data.document_type ELSE "Unknown",
     total_size |-> 0,
     text_length |-> IF "full_text" \in DOMAIN data THEN Len(data.full_text) ELSE 0,
     word_count |-> IF "full_text" \in DOMAIN data
                    THEN WordCount(data.full_text) ELSE 0,
     has_tables |-> "tables" \in DOMAIN data,
     table_count |-> IF "tables" \in DOMAIN data THEN Len(data.tables) ELSE 0,
     sections |->
        IF "total_pages" \in DOMAIN data
        THEN <<[total_pages |-> data.total_pages]>>
        ELSE IF "total_paragraphs" \in DOMAIN data
        THEN <<[total_paragraphs |-> data.total_paragraphs]>>
        ELSE <<>>]

\* ----------------------------------------------------- the orchestrator

\* self.output_dir, and the paths process_file and process_batch write
OutputPath(base_name, suffix) == [dir |-> "output", name |-> base_name, suffix |-> suffix]
ZipPath == [dir |-> "output", name |-> "batch_output", suffix |-> ".zip"]

\* a variant that writes nothing
WriteFileNowhere(out, path, text) == out

\* open(path, 'w') ... f.write(text): the file is created or replaced
WriteFile(out, path, text) ==
    [p \in DOMAIN out \cup {path} |-> IF p = path THEN text ELSE out[p]]

\* a variant without the legacy formats
ConverterForWithoutLegacy(ext) ==
    CASE ext = <<".","p","d","f">> -> "PDFConverter"
      [] ext = <<".","d","o","c","x">> -> "WordConverter"
      [] ext = <<".","x","l","s","x">> -> "ExcelConverter"
      [] ext \in {<<".","t","x","t">>, <<".","c","s","v">>} -> "TextConverter"
      [] OTHER -> ""

\* the branch of process_file that picks the converter, "" for its else branch
ConverterFor(ext) ==
    CASE ext = <<".","p","d","f">> -> "PDFConverter"
      [] ext \in {<<".","d","o","c","x">>, <<".","d","o","c">>} -> "WordConverter"
      [] ext \in {<<".","x","l","s","x">>, <<".","x","l","s">>} -> "ExcelConverter"
      [] ext \in {<<".","t","x","t">>, <<".","c","s","v">>} -> "TextConverter"
      [] OTHER -> ""

\* converter.extract()
Extract(converter, fs, path) ==
    CASE converter = "PDFConverter" -> PDFExtract(fs[path].content)
      [] converter = "WordConverter" -> WordExtract(fs[path].content)
      [] converter = "ExcelConverter" -> ExcelExtract(fs[path].content, path)
      [] converter = "TextConverter" -> TextExtract(fs[path].content, path)

\* the document handles converter.extract() leaves open when it returns (those of
\* PDFConverter and WordConverter are followed)
HandlesLeft(converter, fs, path) ==
    CASE converter = "PDFConverter" -> PDFHandles(fs[path].content)
      [] converter = "WordConverter" -> WordHandles(fs[path].content)
      [] OTHER -> {}

\* a variant that never looks at all_data
ExtractTabularDataWithoutAllData(data) ==
    IF "data" \in DOMAIN data THEN data.data
    ELSE IF "tables" \in DOMAIN data /\ data.tables # <<>>
    THEN LET first_table == data.tables[1].data
         IN  IF Len(first_table) > 1
             THEN [i \in 1..(Len(first_table) - 1) |->
                      ZipDict(first_table[1],
                              [j \in DOMAIN first_table[i + 1] |->
                                  Str(first_table[i + 1][j])])]
             ELSE <<>>
    ELSE <<>>

\* _extract_tabular_data(data)
ExtractTabularData(data) ==
    IF "data" \in DOMAIN data THEN data.data
    ELSE IF "all_data" \in DOMAIN data THEN data.all_data
    ELSE IF "tables" \in DOMAIN data /\ data.tables # <<>>
    THEN LET first_table == data.tables[1].data
         IN  IF Len(first_table) > 1
             THEN [i \in 1..(Len(first_table) - 1) |->
                      ZipDict(first_table[1],
                              [j \in DOMAIN first_table[i + 1] |->
                                  Str(first_table[i + 1][j])])]
             ELSE <<>>
    ELSE <<>>

\* the cleaning options process_file builds from its arguments
CleaningOptions(o) ==
    Options([remove_extra_spaces |-> o.remove_extra_spaces,
             remove_urls |-> o.remove_urls,
             lowercase |-> o.lowercase,
             remove_special_chars |-> FALSE,
             remove_numbers |-> FALSE])

\* What process_file returns, (status, preview, download path, statistics), with
\* the output directory afterwards and what the call did: the stages it ran, in
\* order, the paths it wrote, the extracted record (<<>>: none), the rows it chose
\* for CSV and what to_csv returned (<<>>: not called).  "" is <<>>, None is <<>>.
Returned(status, preview, download, stats, out, did) ==
    [status |-> status, preview |-> preview, download |-> download, stats |-> stats,
     out |-> out, trace |-> did.trace, wrote |-> did.wrote,
     extracted |-> did.extracted, csv_data |-> did.csv_data, to_csv |-> did.to_csv]

Did(trace, wrote, extracted) ==
    [trace |-> trace, wrote |-> wrote, extracted |-> extracted,
     csv_data |-> <<>>, to_csv |-> <<>>]

Success(file_path, output_path) ==
    [text |-> "Successfully processed", file |-> file_path, saved_to |-> output_path]

\* a variant that cuts a text of exactly 2000 characters too
PreviewTextFrom2000(text) ==
    IF Len(text) >= 2000 THEN SubSeq(text, 1, 2000) \o <<".", ".", ".">> ELSE text

\* json_output[:2000] + "..." if len(json_output) > 2000 else json_output, on the
\* characters of the serialized text
PreviewText(text) ==
    IF Len(text) > 2000 THEN SubSeq(text, 1, 2000) \o <<".", ".", ".">> ELSE text

\* the preview process_file assigns in the branch of output_format: for CSV the
\* row-count message f"CSV file created with {len(csv_data)} rows"
FormatPreview(output_format, text, csv_data) ==
    IF output_format = "CSV" THEN <<[csv_rows |-> Len(csv_data)]>>
    ELSE PreviewText(text)

\* the same preview of a serialized text that is held as the structure it
\* serializes
Preview(text) == <<[head |-> text]>>

\* to_xml raises on the record data: a row mapping has the key None
RecordXmlRaises(data) ==
    \E f \in DOMAIN data \cap {"data", "preview", "all_data"} :
        \E i \in DOMAIN data[f] : NoneKey \in KeySet(data[f][i])

\* process_file from "Format output" on: extracted_data is the record as
\* extracted, data the record after cleaning, ran the stages run so far
FormatOutput(out, file_path, output_format, extracted_data, data, ran) ==
    LET stats_text == <<GetStatistics(data)>>
        base_name == file_path.base
    IN
    CASE output_format = "JSON" ->
            LET output_path == OutputPath(base_name, "_converted.json")
                json_output == ToJson(data)
            IN  Returned(Success(file_path, output_path), Preview(json_output),
                         output_path, stats_text,
                         WriteFile(out, output_path, json_output),
                         Did(ran \o <<"format", "write">>, {output_path},
                             <<extracted_data>>))
      [] output_format = "CSV" ->
            LET output_path == OutputPath(base_name, "_converted.csv")
                csv_data == ExtractTabularData(data)
            IN  IF csv_data # <<>>
                THEN LET r == ToCsv(out, csv_data, output_path)
                     IN  Returned(Success(file_path, output_path),
                                  <<[csv_rows |-> Len(csv_data)]>>,
                                  output_path, stats_text, r.out,
                                  [trace |-> ran \o <<"format", "write">>,
                                   wrote |-> {output_path},
                                   extracted |-> <<extracted_data>>,
                                   csv_data |-> csv_data,
                                   to_csv |-> <<[ok |-> r.ok, ret |-> r.ret]>>])
                ELSE Returned([text |-> "No tabular data found for CSV export"],
                              <<>>, None, stats_text, out,
                              Did(ran \o <<"format">>, {}, <<extracted_data>>))
      [] output_format = "XML" ->
            LET output_path == OutputPath(base_name, "_converted.xml")
                xml_output == ToXml(data)
            IN  IF RecordXmlRaises(data)
                THEN Returned([text |-> "Error processing file",
                               cause |-> "AttributeError"],
                              <<>>, None, <<>>, out,
                              Did(ran \o <<"format">>, {}, <<extracted_data>>))
                ELSE
                Returned(Success(file_path, output_path), Preview(xml_output),
                         output_path, stats_text,
                         WriteFile(out, output_path, xml_output),
                         Did(ran \o <<"format", "write">>, {output_path},
                             <<extracted_data>>))
      [] output_format = "AI Training Format" ->
            LET output_path == OutputPath(base_name, "_ai_training.json")
                json_output == ToJson(CreateAiTrainingFormat(data))
            IN  Returned(Success(file_path, output_path), Preview(json_output),
                         output_path, stats_text,
                         WriteFile(out, output_path, json_output),
                         Did(ran \o <<"format", "write">>, {output_path},
                             <<extracted_data>>))
      [] OTHER ->
            \* no branch binds output_path: building the success message raises
            \* UnboundLocalError, which the except clause reports
            Returned([text |-> "Error processing file", cause |-> "UnboundLocalError"],
                     <<>>, None, <<>>, out, Did(ran, {}, <<extracted_data>>))

\* a variant that cleans the text of every page as well
CleanRecordWithPages(extracted_data, o) ==
    IF o.clean_text /\ "full_text" \in DOMAIN extracted_data
    THEN IF "pages" \in DOMAIN extracted_data
         THEN [extracted_data EXCEPT
                  !.full_text = CleanText(@, CleaningOptions(o)),
                  !.pages = [i \in DOMAIN @ |->
                                [@[i] EXCEPT
                                    !.text = CleanText(@, CleaningOptions(o))]]]
         ELSE [extracted_data EXCEPT !.full_text = CleanText(@, CleaningOptions(o))]
    ELSE extracted_data

\* "Clean data if requested": the record with its full_text cleaned
CleanRecord(extracted_data, o) ==
    IF o.clean_text /\ "full_text" \in DOMAIN extracted_data
    THEN [extracted_data EXCEPT !.full_text = CleanText(@, CleaningOptions(o))]
    ELSE extracted_data

\* a variant that computes the statistics before it looks for the error field
ProcessExtractedStatisticsFirst(out, file_path, output_format, o, extracted_data) ==
    IF "error" \in DOMAIN extracted_data
    THEN Returned(extracted_data.error, <<>>, None, <<>>, out,
                  Did(<<"validate", "extract", "statistics">>, {}, <<extracted_data>>))
    ELSE FormatOutput(out, file_path, output_format, extracted_data,
                      CleanRecord(extracted_data, o),
                      <<"validate", "extract">>
                          \o (IF o.clean_text /\ "full_text" \in DOMAIN extracted_data
                              THEN <<"clean">> ELSE <<>>)
                          \o <<"statistics">>)

\* process_file from the test of the extracted record on
ProcessExtracted(out, file_path, output_format, o, extracted_data) ==
    IF "error" \in DOMAIN extracted_data
    THEN Returned(extracted_data.error, <<>>, None, <<>>, out,
                  Did(<<"validate", "extract">>, {}, <<extracted_data>>))
    ELSE FormatOutput(out, file_path, output_format, extracted_data,
                      CleanRecord(extracted_data, o),
                      <<"validate", "extract">>
                          \o (IF o.clean_text /\ "full_text" \in DOMAIN extracted_data
                              THEN <<"clean">> ELSE <<>>)
                          \o <<"statistics">>)

\* process_file from the choice of the converter on
ProcessValidated(fs, out, file_path, output_format, o, converter) ==
    IF converter = ""
    THEN Returned([text |-> "Unsupported file type", ext |-> Lower(file_path.ext)],
                  <<>>, None, <<>>, out, Did(<<"validate">>, {}, <<>>))
    ELSE ProcessExtracted(out, file_path, output_format, o,
                          Extract(converter, fs, file_path))

\* process_file(file_path, output_format, clean_text, remove_urls,
\*              remove_extra_spaces, lowercase), o the four flags
ProcessFile(fs, out, file_path, output_format, o) ==
    LET v == ValidateFile(fs, file_path) IN
    IF ~v.is_valid
    THEN Returned(v.message, <<>>, None, <<>>, out, Did(<<"validate">>, {}, <<>>))
    ELSE ProcessValidated(fs, out, file_path, output_format, o,
                          ConverterFor(Lower(file_path.ext)))

\* what a call of process_file returned and did, without the output directory
Report(r) == [f \in DOMAIN r \ {"out"} |-> r[f]]

\* one turn of the loop of process_batch: r is what process_file returned
BatchStep(acc, file_path, r) ==
    [out |-> r.out,
     successful |-> IF r.download # None THEN acc.successful + 1 ELSE acc.successful,
     failed |-> IF r.download # None THEN acc.failed ELSE acc.failed + 1,
     results |-> Append(acc.results,
                        IF r.download # None
                        THEN [mark |-> "[OK]", file |-> file_path]
                        ELSE [mark |-> "[FAILED]", file |-> file_path,
                              status |-> r.status]),
     calls |-> Append(acc.calls, [file |-> file_path, r |-> Report(r)])]

\* a variant of the loop that ends at the first file that fails
RECURSIVE BatchLoopUntilFailure(_, _, _, _, _, _)
BatchLoopUntilFailure(fs, acc, files, i, output_format, o) ==
    IF i > Len(files) \/ acc.failed > 0 THEN acc
    ELSE BatchLoopUntilFailure(fs,
                   BatchStep(acc, files[i],
                             ProcessFile(fs, acc.out, files[i], output_format, o)),
                   files, i + 1, output_format, o)

\* the loop of process_batch over files[i..]: acc holds the output directory, the
\* result lines, the two counters and, for each file, what process_file returned
RECURSIVE BatchLoop(_, _, _, _, _, _)
BatchLoop(fs, acc, files, i, output_format, o) ==
    IF i > Len(files) THEN acc
    ELSE BatchLoop(fs,
                   BatchStep(acc, files[i],
                             ProcessFile(fs, acc.out, files[i], output_format, o)),
                   files, i + 1, output_format, o)

\* shutil.make_archive(output/batch_output, 'zip', output): the archive is opened
\* for writing (created or truncated) and every file found in the output directory
\* is added: the artifacts (members) and, as it lies in that directory, the
\* unfinished archive itself
MakeArchive(out) ==
    [p \in DOMAIN out \cup {ZipPath} |->
        IF p = ZipPath
        THEN [format |-> "zip",
              members |-> [q \in DOMAIN out \ {ZipPath} |-> out[q]],
              itself |-> TRUE]
        ELSE out[p]]

\* process_batch after its loop: the summary, and the archive if a file succeeded
BatchReturned(acc) ==
    IF acc.successful > 0
    THEN [summary |-> [text |-> "Batch Processing Complete",
                       successful |-> acc.successful, failed |-> acc.failed,
                       details |-> acc.results],
          zip |-> ZipPath, out |-> MakeArchive(acc.out), calls |-> acc.calls]
    ELSE [summary |-> [text |-> "Batch Processing Complete",
                       successful |-> acc.successful, failed |-> acc.failed,
                       details |-> acc.results],
          zip |-> None, out |-> acc.out, calls |-> acc.calls]

\* process_batch(files, output_format, clean_text, remove_urls,
\*               remove_extra_spaces, lowercase): (summary, zip path)
ProcessBatch(fs, out, files, output_format, o) ==
    IF files = <<>>
    THEN [summary |-> [text |-> "No files uploaded"], zip |-> <<>>, out |-> out,
          calls |-> <<>>]
    ELSE BatchReturned(BatchLoop(fs,
                                 [out |-> out, successful |-> 0, failed |-> 0,
                                  results |-> <<>>, calls |-> <<>>],
                                 files, 1, output_format, o))

\* ------------------------------------------- specification of the cleaner

\* the texts clean_text is given: up to MaxTokens of these pieces, concatenated
\* (a URL in two halves, a URL in capitals, a URL broken by a digit, a URL broken
\* by a phone number, a phone number, a word character that is no letter or
\* digit, a letter whose lowercase ends in a mark, the tail of an e-mail address,
\* a space)
Tokens ==
    { <<"h","t","t","p",":","/">>, <<"/","x">>,
      <<"H","T","T","P",":","/","/","x">>,
      <<"h","t","t","p",":","/","1","/","x">>,
      <<"h","t","t","p",":","/","5","5","5","-","5","5","5","-","5","5","5","5","/","x">>,
      <<"5","5","5","-","5","5","5","-","5","5","5","5">>,
      <<"_">>, <<CapitalIDot>>, <<"@","x">>, <<" ">> }

RECURSIVE TextsOf(_)
TextsOf(n) ==
    IF n = 0 THEN {<<>>}
    ELSE LET shorter == TextsOf(n - 1)
         IN  shorter \cup {t \o k : t \in shorter, k \in Tokens}

\* every dict that gives all seven flags, the empty dict, a dict that gives only
\* some flags, and None
OptionSets ==
    {Options(d) : d \in [OptionKeys -> BOOLEAN]}
        \cup {Options(<<>>), NoOptions,
              Options([lowercase |-> TRUE]),
              Options([remove_urls |-> FALSE, remove_numbers |-> TRUE])}

\* the validator is idle in the cleaner's specification
ValidatorIdle == vfs = <<>> /\ vpath = <<>> /\ vres = <<>>

\* the orchestrator is idle in the cleaner's and the validator's specifications
OrchestratorIdle == outdir = <<>> /\ last = <<>> /\ ncalls = 0

\* no extractor has been called, and no formatter function
ExtractorsIdle == ecalls = <<>> /\ handles = {}

FormatterIdle == fcall = <<>>

InitClean ==
    /\ ctext \in TextsOf(MaxTokens)
    /\ copts \in OptionSets
    /\ ccalls = <<>>
    /\ ValidatorIdle
    /\ OrchestratorIdle
    /\ ExtractorsIdle
    /\ FormatterIdle

\* cleaned = clean_text(text, options), then applied again to its own output
Clean ==
    /\ Len(ccalls) < MaxCleanCalls
    /\ LET out == CleanText(ctext, copts)
       IN  /\ ccalls' = Append(ccalls, [in |-> ctext, out |-> out])
           /\ ctext' = out
    /\ UNCHANGED <<copts, vfs, vpath, vres, outdir, last, ncalls, ecalls, handles, fcall>>

NextClean == Clean

SpecClean == InitClean /\ [][NextClean]_vars

\* ----------------------------------------- specification of the validator

VExts ==
    SUPPORTED_EXTENSIONS
        \cup { <<".","P","D","F">>, <<".","T","x","t">>, <<".","e","x","e">>,
               <<".","j","s","o","n">>, <<>> }

VSizes == {0, 1, 1024, MAX_FILE_SIZE - 1, MAX_FILE_SIZE, MAX_FILE_SIZE + 1,
           2 * MAX_FILE_SIZE}

\* the cleaner is idle in the validator's specification
CleanerIdle == ctext = <<>> /\ copts = NoOptions /\ ccalls = <<>>

InitValidate ==
    /\ vpath \in {[base |-> "f", ext |-> e] : e \in VExts}
    /\ vfs \in {<<>>} \cup {[p \in {vpath} |-> [size |-> s]] : s \in VSizes}
    /\ vres = <<>>
    /\ CleanerIdle
    /\ OrchestratorIdle
    /\ ExtractorsIdle
    /\ FormatterIdle

Validate ==
    /\ vres = <<>>
    /\ vres' = <<ValidateFile(vfs, vpath)>>
    /\ UNCHANGED <<ctext, copts, ccalls, vfs, vpath, outdir, last, ncalls, ecalls, handles,
                 fcall>>

\* process_file after validate_file answered is_valid: the extension is split off
\* and lower-cased again, and the converter is picked by it
Dispatch ==
    /\ Len(vres) = 1
    /\ vres[1].is_valid
    /\ vres' = Append(vres, [ext |-> Lower(vpath.ext),
                             converter |-> ConverterFor(Lower(vpath.ext))])
    /\ UNCHANGED <<ctext, copts, ccalls, vfs, vpath, outdir, last, ncalls, ecalls, handles,
                   fcall>>

NextValidate == Validate \/ Dispatch

SpecValidate == InitValidate /\ [][NextValidate]_vars

\* -------------------------------------- specification of the orchestrator

Path(base, ext) == [base |-> base, ext |-> ext]

NoMetadata == [title |-> "N/A", author |-> "N/A"]

\* the input files: a PDF and a Word document of the same base name, a CSV file, a
\* CSV file whose last row is longer than its header, a PDF that cannot be opened,
\* a workbook of two sheets, a file of an unsupported type, an empty file, a text
\* file whose extension is in capitals, and a path that does not exist
PdfA == Path("a", <<".","p","d","f">>)
DocxA == Path("a", <<".","d","o","c","x">>)
CsvC == Path("c", <<".","c","s","v">>)
CsvR == Path("r", <<".","c","s","v">>)
PdfX == Path("x", <<".","p","d","f">>)
XlsxD == Path("d", <<".","x","l","s","x">>)
ExeE == Path("e", <<".","e","x","e">>)
TxtZ == Path("z", <<".","t","x","t">>)
TxtN == Path("n", <<".","T","X","T">>)
TxtM == Path("m", <<".","t","x","t">>)

InputPaths == {PdfA, DocxA, CsvC, CsvR, PdfX, XlsxD, ExeE, TxtZ, TxtN, TxtM}

\* the files the lists given to process_batch are made of
BatchPaths == {PdfA, DocxA, CsvR, PdfX, TxtM}

Disk ==
    (PdfA :> [size |-> 2048,
              content |-> [corrupt |-> FALSE,
                           pages |-> << <<"H","i"," "," ","U">>, <<"p","2">> >>,
                           tables |-> <<>>, metadata |-> NoMetadata]])
    @@ (DocxA :> [size |-> 4096,
                  content |-> [corrupt |-> FALSE,
                               paragraphs |-> << [text |-> <<"P"," ","q">>,
                                                  style |-> "Normal"],
                                                 [text |-> <<" ">>, style |-> "Normal"] >>,
                               tables |-> << << <<"k","v">>, <<"1","2">> >> >>,
                               metadata |-> NoMetadata]])
    @@ (CsvC :> [size |-> 12,
                 content |-> [corrupt |-> FALSE, encoding |-> "ascii",
                              rows |-> << <<"a","b">>, <<"1","2">>, <<"3","4">> >>]])
    @@ (CsvR :> [size |-> 14,
                 content |-> [corrupt |-> FALSE, encoding |-> "ascii",
                              rows |-> << <<"a","b">>, <<"1","2">>, <<"3","4","5">> >>]])
    @@ (PdfX :> [size |-> 7, content |-> [corrupt |-> TRUE]])
    @@ (XlsxD :> [size |-> 8192,
                  content |-> [corrupt |-> FALSE,
                               sheets |-> <<
                                 [sheet_name |-> "S1", column_names |-> <<"a">>,
                                  records |-> << <<[k |-> "a", v |-> Str("1")]>> >>],
                                 [sheet_name |-> "S2", column_names |-> <<"a">>,
                                  records |-> << <<[k |-> "a", v |-> Str("2")]>>,
                                                 <<[k |-> "a", v |-> Str("3")]>> >>] >>]])
    @@ (ExeE :> [size |-> 10, content |-> [corrupt |-> TRUE]])
    @@ (TxtZ :> [size |-> 0,
                 content |-> [corrupt |-> FALSE, encoding |-> "utf-8", text |-> <<>>]])
    @@ (TxtN :> [size |-> 5,
                 content |-> [corrupt |-> FALSE, encoding |-> "ascii",
                              text |-> <<"A"," ","\n","\n","b">>]])

OutputFormats == {"JSON", "CSV", "XML", "AI Training Format", "YAML"}

\* the four check boxes: nothing cleaned, or everything
FlagSets ==
    { [clean_text |-> FALSE, remove_urls |-> FALSE, remove_extra_spaces |-> FALSE,
       lowercase |-> FALSE],
      [clean_text |-> TRUE, remove_urls |-> TRUE, remove_extra_spaces |-> TRUE,
       lowercase |-> TRUE] }

RECURSIVE ListsOf(_, _)
ListsOf(S, n) ==
    IF n = 0 THEN {<<>>}
    ELSE LET shorter == ListsOf(S, n - 1)
         IN  shorter \cup {Append(l, x) : l \in shorter, x \in S}

\* after AIDataConverter(): the output directory exists, and is empty here
Init ==
    /\ outdir = <<>>
    /\ last = <<>>
    /\ ncalls = 0
    /\ CleanerIdle
    /\ ValidatorIdle
    /\ ExtractorsIdle
    /\ FormatterIdle

\* a call returned r: its effect on the output directory, and the record of it
Called(op, files, output_format, o, r) ==
    /\ outdir' = r.out
    /\ last' = [op |-> op, files |-> files, output_format |-> output_format,
                o |-> o, r |-> Report(r)]

CallProcessFile ==
    /\ ncalls < MaxCalls
    /\ \E file_path \in InputPaths, output_format \in OutputFormats, o \in FlagSets :
          Called("process_file", <<file_path>>, output_format, o,
                 ProcessFile(Disk, outdir, file_path, output_format, o))
    /\ ncalls' = ncalls + 1
    /\ UNCHANGED <<ctext, copts, ccalls, vfs, vpath, vres, ecalls, handles, fcall>>

CallProcessBatch ==
    /\ ncalls < MaxCalls
    /\ \E files \in ListsOf(BatchPaths, MaxBatch), output_format \in OutputFormats,
          o \in FlagSets :
          Called("process_batch", files, output_format, o,
                 ProcessBatch(Disk, outdir, files, output_format, o))
    /\ ncalls' = ncalls + 1
    /\ UNCHANGED <<ctext, copts, ccalls, vfs, vpath, vres, ecalls, handles, fcall>>

Next == CallProcessFile \/ CallProcessBatch

Spec == Init /\ [][Next]_vars

\* -------------------------------------------- claims on the orchestrator

\* the last call was process_batch on a list that is not empty
BatchReturnedLast == last # <<>> /\ last.op = "process_batch" /\ last.files # <<>>

\* the last call was process_file
FileReturnedLast == last # <<>> /\ last.op = "process_file"

\* the file of a process_file call failed: the call reported a failure, or the CSV
\* writer failed on the rows chosen
FileFailed(r) == r.download = None \/ (r.to_csv # <<>> /\ ~r.to_csv[1].ok)

\* formatting failed in a process_file call: CSV was asked for and no tabular data
\* was found, or the CSV writer failed on the rows chosen
FormattingFailed(output_format, r) ==
    /\ output_format = "CSV"
    /\ "format" \in Range(r.trace)
    /\ r.csv_data = <<>> \/ (r.to_csv # <<>> /\ ~r.to_csv[1].ok)

\* C1: a batch over N files of which M fail reports successful = N - M and
\* failed = M, and returns an archive path exactly when successful > 0; with
\* successful = 0 no archive is created.
C1_BatchCounts ==
    BatchReturnedLast =>
        LET N == Len(last.files)
            M == Cardinality({i \in DOMAIN last.r.calls : FileFailed(last.r.calls[i].r)})
        IN  /\ last.r.summary.successful = N - M
            /\ last.r.summary.failed = M
            /\ (last.r.zip # None) <=> (last.r.summary.successful > 0)
            /\ (last.r.summary.successful = 0 /\ ncalls = 1) => ZipPath \notin DOMAIN outdir

\* the outputs of the files that succeeded in the last batch
BatchOutputs ==
    UNION {last.r.calls[i].r.wrote :
              i \in {k \in DOMAIN last.r.calls : last.r.calls[k].r.download # None}}

\* C2: the archive a batch produces holds outputs only of the files that succeeded
\* in that batch, whatever calls were made before it.
C2_ArchiveOfThisBatchOnly ==
    (BatchReturnedLast /\ last.r.zip # None) =>
        DOMAIN outdir[ZipPath].members \subseteq BatchOutputs

\* C3: process_batch calls process_file on every file of its list, in the order of
\* the list, each file with the result it has when processed alone, and records one
\* line per file: [OK], or [FAILED] with the status of that file; a failure of one
\* file does not end the loop.
C3_EveryFileInOrder ==
    BatchReturnedLast =>
        /\ Len(last.r.calls) = Len(last.files)
        /\ Len(last.r.summary.details) = Len(last.files)
        /\ \A i \in DOMAIN last.files :
              LET c == last.r.calls[i]
                  line == last.r.summary.details[i]
              IN  /\ c.file = last.files[i]
                  /\ c.r = Report(ProcessFile(Disk, <<>>, last.files[i],
                                              last.output_format, last.o))
                  /\ line.file = last.files[i]
                  /\ line.mark \in {"[OK]", "[FAILED]"}
                  /\ line.mark = "[OK]" <=> c.r.download # None
                  /\ line.mark = "[FAILED]" => line.status = c.r.status

\* a batch of two files: the first failed, the second was processed and succeeded
C3_Witness ==
    /\ BatchReturnedLast
    /\ Len(last.files) = 2
    /\ last.r.summary.details[1].mark = "[FAILED]"
    /\ last.r.summary.details[2].mark = "[OK]"
    /\ last.r.calls[2].r.wrote # {}

\* the stages of process_file on file_path, as the claim orders them, for a call
\* that returned r
StagesInOrder(file_path, r) ==
    LET v == ValidateFile(Disk, file_path)
        after == {"clean", "statistics", "format", "write"}
    IN  /\ r.trace[1] = "validate"
        /\ \A i \in DOMAIN r.trace :
              /\ r.trace[i] = "extract" => (i = 2 /\ v.is_valid)
              /\ r.trace[i] \in after =>
                    /\ i > 2 /\ r.trace[2] = "extract"
                    /\ r.extracted # <<>>
                    /\ "error" \notin DOMAIN r.extracted[1]
        /\ ~v.is_valid =>
              /\ r.trace = <<"validate">>
              /\ r.status = v.message
              /\ r.preview = <<>> /\ r.download = None /\ r.wrote = {}
        /\ (r.extracted # <<>> /\ "error" \in DOMAIN r.extracted[1]) =>
              /\ r.trace = <<"validate", "extract">>
              /\ r.status = r.extracted[1].error
              /\ r.preview = <<>> /\ r.download = None /\ r.wrote = {}

\* C4: process_file extracts only after validate_file accepted the file, and
\* cleans, computes statistics, formats and writes only after the extraction gave
\* a record without an error field; on a validation failure or an error record the
\* message is the status, the preview is empty, there is no download path and
\* nothing is written.
C4_StagesInOrder ==
    /\ FileReturnedLast => StagesInOrder(last.files[1], last.r)
    /\ BatchReturnedLast =>
          \A i \in DOMAIN last.r.calls :
              StagesInOrder(last.r.calls[i].file, last.r.calls[i].r)

\* process_file was given a valid file whose extraction gave an error record
C4_Witness ==
    /\ FileReturnedLast
    /\ ValidateFile(Disk, last.files[1]).is_valid
    /\ last.r.extracted # <<>>
    /\ "error" \in DOMAIN last.r.extracted[1]
    /\ last.r.status = last.r.extracted[1].error
    /\ last.r.download = None

\* C5: when formatting fails in process_file, the status is a failure message, no
\* download path is returned and the call leaves no artifact.
C5_FormattingFailureLeavesNothing ==
    (FileReturnedLast /\ FormattingFailed(last.output_format, last.r)) =>
        /\ last.r.status.text # "Successfully processed"
        /\ last.r.download = None
        /\ last.r.wrote = {}

\* C6: a call never changes or removes an artifact that is in the output directory
\* (the archive of a batch apart).
C6_ArtifactsNeverMutated ==
    [][\A p \in DOMAIN outdir \ {ZipPath} :
          p \in DOMAIN outdir' /\ outdir'[p] = outdir[p]]_vars

\* the rows of a grid whose first row is the header: each further row zipped
\* against the header
HeaderZipped(grid) ==
    [i \in 1..(Len(grid) - 1) |->
        ZipDict(grid[1], [j \in DOMAIN grid[i + 1] |-> Str(grid[i + 1][j])])]

\* the rows the claim's rules choose from an extraction record
RowsByRule(record) ==
    IF "data" \in DOMAIN record THEN record.data
    ELSE IF "all_data" \in DOMAIN record THEN record.all_data
    ELSE IF "tables" \in DOMAIN record /\ record.tables # <<>>
    THEN HeaderZipped(record.tables[1].data)
    ELSE <<>>

\* a call of process_file for CSV that got as far as formatting chose its rows by
\* the rules, and failed with the message and no path when the rules gave none
CsvRowsByRule(r) ==
    "format" \in Range(r.trace) =>
        /\ r.csv_data = RowsByRule(r.extracted[1])
        /\ r.csv_data = <<>> =>
              /\ r.status = [text |-> "No tabular data found for CSV export"]
              /\ r.download = None
              /\ r.to_csv = <<>>
        /\ r.csv_data # <<>> =>
              /\ r.to_csv # <<>>
              /\ r.preview = <<[csv_rows |-> Len(r.csv_data)]>>

\* C13: for CSV output the rows are chosen by the first rule that matches: the
\* record's data; else its all_data; else the first table, its first row the
\* header and every other row zipped against it; with no rows the call fails with
\* the 'no tabular data' message and no path.
C13_CsvRowsByFirstMatchingRule ==
    /\ (FileReturnedLast /\ last.output_format = "CSV") => CsvRowsByRule(last.r)
    /\ (BatchReturnedLast /\ last.output_format = "CSV") =>
          \A i \in DOMAIN last.r.calls : CsvRowsByRule(last.r.calls[i].r)

\* CSV was asked for a record with neither data nor all_data: the rows came from
\* its first table
C13_Witness ==
    /\ FileReturnedLast /\ last.output_format = "CSV"
    /\ last.r.extracted # <<>>
    /\ DOMAIN last.r.extracted[1] \cap {"data", "all_data"} = {}
    /\ "tables" \in DOMAIN last.r.extracted[1]
    /\ last.r.csv_data # <<>>
    /\ Len(last.r.csv_data) = Len(last.r.extracted[1].tables[1].data) - 1

\* C15: every row mapping in the data of a CSV extraction has exactly the header's
\* key set, rows with fewer or more fields than the header included.
C15_RowsHaveHeaderKeys ==
    (FileReturnedLast /\ last.r.extracted # <<>>
        /\ "headers" \in DOMAIN last.r.extracted[1]) =>
        \A i \in DOMAIN last.r.extracted[1].data :
            KeySet(last.r.extracted[1].data[i]) = Range(last.r.extracted[1].headers)

\* ------------------------------------------------- claims on the cleaner

\* every call after the first was given the output of the call before it, and
\* returned it unchanged
AppliedAgainUnchanged ==
    \A k \in 2..Len(ccalls) : ccalls[k].in = ccalls[k - 1].out /\ ccalls[k].out = ccalls[k].in

\* C7: with remove_extra_spaces enabled, clean_text applied to its own output
\* returns it unchanged, whatever the other six flags are.
C7_IdempotentWithExtraSpaces ==
    Enabled(copts, "remove_extra_spaces") => AppliedAgainUnchanged

\* the steps of clean_text in the order the claim gives them
StepOrder ==
    <<"remove_urls", "remove_emails", "remove_phone_numbers", "remove_special_chars",
      "remove_numbers", "lowercase", "remove_extra_spaces">>

ApplyStep(step, s) ==
    CASE step = "remove_urls" -> RemoveUrls(s)
      [] step = "remove_emails" -> RemoveEmails(s)
      [] step = "remove_phone_numbers" -> RemovePhoneNumbers(s)
      [] step = "remove_special_chars" -> RemoveSpecialChars(s)
      [] step = "remove_numbers" -> RemoveNumbers(s)
      [] step = "lowercase" -> Lower(s)
      [] step = "remove_extra_spaces" -> RemoveExtraSpaces(s)

\* the steps from the n-th on, applied in order, each only if its flag is enabled
RECURSIVE ComposeFrom(_, _, _)
ComposeFrom(n, s, o) ==
    IF n > Len(StepOrder) THEN s
    ELSE ComposeFrom(n + 1,
                     IF Enabled(o, StepOrder[n]) THEN ApplyStep(StepOrder[n], s) ELSE s,
                     o)

AllExplicitlyFalse(o) ==
    ~o.none /\ DOMAIN o.d = OptionKeys /\ \A k \in OptionKeys : ~o.d[k]

\* C8: the result of clean_text is the composition of the enabled steps in the
\* order URLs, e-mails, phone numbers, special characters, digits, lowercase,
\* whitespace; a disabled step is skipped; with all seven flags explicitly false
\* the result is the input.
C8_FixedOrderComposition ==
    \A k \in DOMAIN ccalls :
        /\ ccalls[k].out = ComposeFrom(1, ccalls[k].in, copts)
        /\ AllExplicitlyFalse(copts) => ccalls[k].out = ccalls[k].in

\* clean_text ran with the URL and lowercase steps on and the special-character
\* step off on a text whose URL is in capitals: the order of the two steps shows
C8_Witness ==
    /\ Len(ccalls) >= 1
    /\ Enabled(copts, "remove_urls") /\ Enabled(copts, "lowercase")
    /\ ~Enabled(copts, "remove_special_chars")
    /\ ccalls[1].out # ccalls[1].in
    /\ RemoveUrls(Lower(ccalls[1].in)) # Lower(RemoveUrls(ccalls[1].in))

\* ----------------------------------------------- claims on the validator

Validated == vres # <<>>

FileExists == vpath \in DOMAIN vfs
ExtensionSupported == Lower(vpath.ext) \in SUPPORTED_EXTENSIONS

\* C9: validate_file reports the first failing rule of: the file exists, its
\* extension (case-insensitive) is supported, its size is at most 50 MiB, its size
\* is above 0; it answers (True, 'Valid <type label>') only when all four pass.
C9_FirstFailingRule ==
    Validated =>
        LET r == vres[1] IN
        /\ ~FileExists => r.message.text = "File does not exist"
        /\ (FileExists /\ ~ExtensionSupported)
               => r.message.text = "Unsupported file type"
        /\ (FileExists /\ ExtensionSupported /\ vfs[vpath].size > 52428800)
               => r.message.text = "File too large"
        /\ (FileExists /\ ExtensionSupported /\ vfs[vpath].size = 0)
               => r.message.text = "File is empty"
        /\ r.is_valid <=>
               /\ FileExists /\ ExtensionSupported
               /\ vfs[vpath].size <= 52428800 /\ vfs[vpath].size > 0
        /\ r.is_valid =>
               /\ r.message.text = "Valid"
               /\ r.message.label = TypeLabel(Lower(vpath.ext))

\* an existing zero-byte file with an unsupported extension was reported as an
\* unsupported type
C9_Witness ==
    /\ Validated
    /\ FileExists /\ ~ExtensionSupported /\ vfs[vpath].size = 0
    /\ ~vres[1].is_valid
    /\ vres[1].message.text = "Unsupported file type"

\* C10: an existing file with a supported extension is accepted exactly when its
\* size s has 1 <= s <= 52428800.
C10_SizeBounds ==
    (Validated /\ FileExists /\ ExtensionSupported) =>
        (vres[1].is_valid <=> (1 <= vfs[vpath].size /\ vfs[vpath].size <= 52428800))

\* a file of exactly 52428800 bytes with a supported extension in capitals was
\* accepted
C10_Witness ==
    /\ Validated /\ FileExists
    /\ vpath.ext = <<".","P","D","F">>
    /\ vfs[vpath].size = 52428800
    /\ vres[1].is_valid

\* ---------------------------------------- specification of the extractors

\* how many calls of extract a behaviour makes
MaxExtracts == 2

\* the files an extractor is built for
ExtractPaths == {p \in DOMAIN Disk : ConverterFor(Lower(p.ext)) # ""}

\* the steps of converter.extract() at which a library call can raise
StepsOf(converter) ==
    CASE converter \in {"PDFConverter", "WordConverter"} ->
            {"open", "text", "tables", "metadata"}
      [] OTHER -> {"open", "text"}

\* the disk on which the library raises at step `fails` when it reads the file
\* path ("none": at no step)
FaultyDisk(path, fails) ==
    [p \in DOMAIN Disk |->
        IF p = path
        THEN [size |-> Disk[p].size, content |-> [fails |-> fails] @@ Disk[p].content]
        ELSE Disk[p]]

InitExtract ==
    /\ ecalls = <<>>
    /\ handles = {}
    /\ CleanerIdle
    /\ ValidatorIdle
    /\ OrchestratorIdle
    /\ FormatterIdle

\* converter = XConverter(path); r = converter.extract(), as process_file does for
\* a file of a supported type
CallExtract ==
    /\ Len(ecalls) < MaxExtracts
    /\ \E path \in ExtractPaths :
          LET converter == ConverterFor(Lower(path.ext)) IN
          \E fails \in StepsOf(converter) \cup {"none"} :
              /\ ecalls' = Append(ecalls,
                                  [converter |-> converter, path |-> path,
                                   fails |-> fails,
                                   r |-> Extract(converter, FaultyDisk(path, fails),
                                                 path)])
              /\ handles' = handles \cup
                     {[call |-> Len(ecalls) + 1, of |-> h] :
                         h \in HandlesLeft(converter, FaultyDisk(path, fails), path)}
    /\ UNCHANGED <<ctext, copts, ccalls, vfs, vpath, vres, outdir, last, ncalls, fcall>>

NextExtract == CallExtract

SpecExtract == InitExtract /\ [][NextExtract]_vars

\* -------------------------------------------- claims on the extractors

\* the document type of a file, as the record of its successful extraction names it
SourceType(path) ==
    CASE Lower(path.ext) = <<".","p","d","f">> -> "PDF"
      [] Lower(path.ext) \in {<<".","d","o","c","x">>, <<".","d","o","c">>} ->
            "Word Document"
      [] Lower(path.ext) \in {<<".","x","l","s","x">>, <<".","x","l","s">>} ->
            "Excel Spreadsheet"
      [] Lower(path.ext) = <<".","c","s","v">> -> "CSV File"
      [] OTHER -> "Text File"

\* a library call raised inside the call c of extract
FailedInside(c) ==
    \E step \in StepsOf(c.converter) :
        FailsAt(FaultyDisk(c.path, c.fails)[c.path].content, step)

\* C11: extract never raises: every failure inside it, the metadata's and the
\* tables' included, gives a record with an error 'Failed to extract <type>:
\* <cause>' and a document_type that names the source type of the file.
C11_FailureGivesErrorRecord ==
    \A i \in DOMAIN ecalls :
        FailedInside(ecalls[i]) =>
            /\ "error" \in DOMAIN ecalls[i].r
            /\ ecalls[i].r.error.text \in
                  {"Failed to extract PDF", "Failed to extract Word document",
                   "Failed to extract Excel file", "Failed to extract text file"}
            /\ ecalls[i].r.document_type = SourceType(ecalls[i].path)

\* C12: when PDFConverter.extract or WordConverter.extract returns, with a record
\* or with an error record, no document handle opened by the call is still open.
C12_HandlesReleased ==
    handles = {}

\* ----------------------------------------- specification of the formatter

\* the most rows in the data given to to_csv
MaxRows == 2
\* the most pairs in a dict given to to_xml
MaxPairs == 2

\* the values and the headers of the rows given to to_csv
CsvValues == {"1", "", "x,y", "q\"r", "x\ny", "x\ry"}
CsvHeaders == {<<>>, <<"a">>, <<"a", "b">>, <<"a b", "x,y">>}

\* the row mappings with the keys of header, in the header's order and reversed
RowsOver(header) ==
    LET inOrder == {[i \in DOMAIN header |-> [k |-> header[i], v |-> Str(vs[i])]] :
                       vs \in [DOMAIN header -> CsvValues]}
    IN  inOrder \cup {[i \in DOMAIN r |-> r[Len(r) + 1 - i]] : r \in inOrder}

CsvInputs == UNION {ListsOf(RowsOver(header), MaxRows) : header \in CsvHeaders}

CsvOut == OutputPath("t", "_converted.csv")

\* the dicts given to to_xml: up to MaxPairs different keys, each with one of
\* these values
XmlValues ==
    <<Str("1"), Str("x<y"), Str("</r><r>"), Str("<b>"), PyNone,
      List(<<Str("1"), Str("2")>>),
      List(<<Dict(<<[k |-> "a", v |-> Str("1")]>>)>>),
      Dict(<<[k |-> "a b", v |-> Dict(<<[k |-> "a-b", v |-> Str("1")]>>)]>>),
      Dict(<<[k |-> NoneKey, v |-> List(<<Str("5")>>)]>>),
      List(<<>>),
      Dict(<<[k |-> "a-b", v |-> List(<<>>)],
             [k |-> "c", v |-> List(<<Str("1"),
                                      Dict(<<[k |-> "a", v |-> Str("2")],
                                             [k |-> "e", v |-> List(<<>>)]>>),
                                      Str("3")>>)]>>),
      List(<<Str("1"), Str("</k><k>")>>)>>

XmlKeys == {"k", "a b", "a-b"}

XmlKeyLists ==
    {keys \in ListsOf(XmlKeys, MaxPairs) :
        \A i, j \in DOMAIN keys : i # j => keys[i] # keys[j]}

XmlDict(keys, picks) ==
    [i \in DOMAIN keys |-> [k |-> keys[i], v |-> XmlValues[picks[i]]]]

RootNames == {"r", "b"}

\* the records given to create_ai_training_format: what the extractors give for
\* the files of the disk, as extracted and cleaned, and records made by hand (a
\* text of three words without tables, a text with an empty list of tables, rows
\* beside tables, the empty record)
ExtractedRecord(path, o) ==
    CleanRecord(Extract(ConverterFor(Lower(path.ext)), Disk, path), o)

HandMadeRecords ==
    <<[full_text |-> <<"a", " ", "b", " ", "c">>],
      [full_text |-> <<" ", "a", "\n", "\n", "b", " ">>, tables |-> <<>>],
      [tables |-> << <<"t">> >>, data |-> << <<[k |-> "a", v |-> Str("1")]>> >>],
      <<>> >>

\* the serialized texts a preview is made of: n characters, the digits in turn
Digits == <<"0", "1", "2", "3", "4", "5", "6", "7", "8", "9">>
SerializedText(n) == [i \in 1..n |-> Digits[(i % 10) + 1]]
SerializedLengths == {0, 1, 1999, 2000, 2001, 2002, 2003, 2004, 4001}

InitFormat ==
    /\ fcall = <<>>
    /\ CleanerIdle
    /\ ValidatorIdle
    /\ OrchestratorIdle
    /\ ExtractorsIdle

\* The functions of the formatter are static and keep nothing between calls: a
\* behaviour makes one call.

\* to_csv(data, output_path) into an empty directory, then the file read back as
\* TextConverter._extract_csv reads a CSV file
ToCsvCalled(data, r) ==
    fcall' = [op |-> "to_csv", data |-> data, ok |-> r.ok, ret |-> r.ret,
              text |-> IF CsvOut \in DOMAIN r.out
                       THEN <<CsvFileText(r.out[CsvOut].lines)>> ELSE <<>>,
              reread |-> IF CsvOut \in DOMAIN r.out
                         THEN <<ReadCsvFile(CsvFileText(r.out[CsvOut].lines))>>
                         ELSE <<>>]

CallToCsv ==
    /\ fcall = <<>>
    /\ \E data \in CsvInputs : ToCsvCalled(data, ToCsv(<<>>, data, CsvOut))
    /\ UNCHANGED <<ctext, copts, ccalls, vfs, vpath, vres, outdir, last, ncalls,
                   ecalls, handles>>

\* to_xml(data, root_name)
CallToXml ==
    /\ fcall = <<>>
    /\ \E keys \in XmlKeyLists, root_name \in RootNames :
          \E picks \in [DOMAIN keys -> DOMAIN XmlValues] :
              fcall' = [op |-> "to_xml", data |-> XmlDict(keys, picks),
                        root_name |-> root_name,
                        r |-> ToXmlText(XmlDict(keys, picks), root_name)]
    /\ UNCHANGED <<ctext, copts, ccalls, vfs, vpath, vres, outdir, last, ncalls,
                   ecalls, handles>>

\* create_ai_training_format(data)
CallCreateAiTrainingFormat ==
    /\ fcall = <<>>
    /\ \/ \E path \in ExtractPaths, o \in FlagSets :
             fcall' = [op |-> "create_ai_training_format",
                       data |-> ExtractedRecord(path, o),
                       r |-> CreateAiTrainingFormat(ExtractedRecord(path, o))]
       \/ \E n \in DOMAIN HandMadeRecords :
             fcall' = [op |-> "create_ai_training_format",
                       data |-> HandMadeRecords[n],
                       r |-> CreateAiTrainingFormat(HandMadeRecords[n])]
    /\ UNCHANGED <<ctext, copts, ccalls, vfs, vpath, vres, outdir, last, ncalls,
                   ecalls, handles>>

\* the preview of a serialized text, or of the rows chosen for CSV
CallPreview ==
    /\ fcall = <<>>
    /\ \E output_format \in OutputFormats \ {"YAML"}, n \in SerializedLengths,
          csv_data \in ListsOf(RowsOver(<<"a">>), MaxRows) \ {<<>>} :
          fcall' = [op |-> "preview", output_format |-> output_format,
                    text |-> IF output_format = "CSV" THEN <<>>
                             ELSE SerializedText(n),
                    csv_data |-> IF output_format = "CSV" THEN csv_data ELSE <<>>,
                    r |-> FormatPreview(output_format, SerializedText(n), csv_data)]
    /\ UNCHANGED <<ctext, copts, ccalls, vfs, vpath, vres, outdir, last, ncalls,
                   ecalls, handles>>

NextFormat == CallToCsv \/ CallToXml \/ CallCreateAiTrainingFormat \/ CallPreview

SpecFormat == InitFormat /\ [][NextFormat]_vars

\* --------------------------------------------- claims on the formatter

\* the rows read back are the rows given: as many, in the same order, each with
\* the same value under every key
SameRows(reread, data) ==
    /\ Len(reread) = Len(data)
    /\ \A i \in DOMAIN data :
          Range(reread[i]) =
              {[k |-> Chars(pair.k), v |-> Str(Chars(pair.v.v))] : pair \in Range(data[i])}

\* C14: for every non-empty sequence of rows with flat string values that share
\* the first row's key set, to_csv returns the output path, and the file it wrote,
\* parsed again with its first line as header, gives the original rows with the
\* original values in the original order.
C14_ToCsvRoundTrips ==
    (fcall # <<>> /\ fcall.op = "to_csv" /\ fcall.data # <<>>) =>
        /\ fcall.ret = CsvOut
        /\ fcall.reread # <<>>
        /\ SameRows(fcall.reread[1].rows, fcall.data)

\* the index of the first ">" of text from i on, 0 if there is none
RECURSIVE TagEnd(_, _)
TagEnd(text, i) ==
    IF i > Len(text) THEN 0 ELSE IF text[i] = ">" THEN i ELSE TagEnd(text, i + 1)

\* the elements of an XML text from i on: stack holds the names of the elements
\* open at i, roots the names of the elements met outside every other, nested
\* whether every end tag so far closed the element opened last
RECURSIVE XmlScan(_, _, _, _, _)
XmlTag(text, j, name, stack, roots, nested) ==
    IF name # <<>> /\ name[1] = "/"
    THEN IF stack # <<>> /\ stack[Len(stack)] = Tail(name)
         THEN XmlScan(text, j + 1, SubSeq(stack, 1, Len(stack) - 1), roots, nested)
         ELSE XmlScan(text, j + 1, stack, roots, FALSE)
    ELSE XmlScan(text, j + 1, Append(stack, name),
                 IF stack = <<>> THEN Append(roots, name) ELSE roots, nested)

XmlScan(text, i, stack, roots, nested) ==
    IF i > Len(text) THEN [roots |-> roots, nested |-> nested /\ stack = <<>>]
    ELSE IF text[i] # "<" THEN XmlScan(text, i + 1, stack, roots, nested)
    ELSE IF TagEnd(text, i) = 0 THEN [roots |-> roots, nested |-> FALSE]
    ELSE XmlTag(text, TagEnd(text, i), SubSeq(text, i + 1, TagEnd(text, i) - 1),
                stack, roots, nested)

\* text is the declaration followed by exactly one element of the given name that
\* encloses every other element
OneRootAfterDeclaration(text, name) ==
    /\ Len(text) > Len(XmlDeclaration)
    /\ SubSeq(text, 1, Len(XmlDeclaration)) = XmlDeclaration
    /\ XmlScan(text, Len(XmlDeclaration) + 1, <<>>, <<>>, TRUE)
           = [roots |-> <<name>>, nested |-> TRUE]

\* C16: for every record and root name, the output of to_xml starts with the
\* declaration <?xml version="1.0" encoding="UTF-8"?>, followed by exactly one
\* root element, whose tag is the root name and which encloses all other elements.
C16_XmlOneRootElement ==
    (fcall # <<>> /\ fcall.op = "to_xml") =>
        /\ fcall.r.raised = ""
        /\ OneRootAfterDeclaration(fcall.r.text, Chars(fcall.root_name))

\* the number of whitespace-separated words of a text: the places where a word
\* starts
Words(text) ==
    Cardinality({i \in DOMAIN text :
                    text[i] \notin SpaceChars /\ (i = 1 \/ text[i - 1] \in SpaceChars)})

AiCalled == fcall # <<>> /\ fcall.op = "create_ai_training_format"

\* C17: in the record create_ai_training_format derives, features.word_count is
\* the number of whitespace-separated words of full_text, 0 when the record has no
\* full_text, and features.has_tables is true exactly when the record has tables
\* and they are not empty.
C17_WordCountAndHasTables ==
    AiCalled =>
        /\ fcall.r.features.word_count =
              (IF "full_text" \in DOMAIN fcall.data THEN Words(fcall.data.full_text)
               ELSE 0)
        /\ fcall.r.features.has_tables
              <=> ("tables" \in DOMAIN fcall.data /\ fcall.data.tables # <<>>)

\* the claim's example: full_text 'a b c' and no tables give word_count 3 and
\* has_tables false
C17_Witness ==
    /\ AiCalled
    /\ fcall.data = [full_text |-> <<"a", " ", "b", " ", "c">>]
    /\ fcall.r.features.word_count = 3
    /\ fcall.r.features.has_tables = FALSE

\* C18: features.has_structure is true exactly when the record has a field of
\* units: the pages of a PDF, the paragraphs of a Word document, the lines of a
\* text file, the sheets of a workbook.
C18_HasStructureIffUnits ==
    AiCalled =>
        (fcall.r.features.has_structure
            <=> DOMAIN fcall.data \cap {"pages", "paragraphs", "lines", "sheets"} # {})

\* C19: structured_data is the record's tables if it has tables, otherwise its
\* tabular rows if it has any (the rows of a CSV file, the rows of all sheets of
\* a workbook), otherwise empty.
C19_StructuredData ==
    AiCalled =>
        fcall.r.structured_data =
            (IF "tables" \in DOMAIN fcall.data THEN fcall.data.tables
             ELSE IF "data" \in DOMAIN fcall.data THEN fcall.data.data
             ELSE IF "all_data" \in DOMAIN fcall.data THEN fcall.data.all_data
             ELSE <<>>)

PreviewCalled == fcall # <<>> /\ fcall.op = "preview"

\* C20, as stated: for JSON, XML and AI Training Format the preview is at most
\* 2000 characters long and equals the first 2000 characters of the serialized
\* output (the whole output when it is shorter); for CSV it is the row-count
\* summary.
C20_PreviewAtMost2000 ==
    PreviewCalled =>
        IF fcall.output_format = "CSV"
        THEN fcall.r = <<[csv_rows |-> Len(fcall.csv_data)]>>
        ELSE /\ Len(fcall.r) <= 2000
             /\ fcall.r = SubSeq(fcall.text, 1,
                                 IF Len(fcall.text) < 2000 THEN Len(fcall.text)
                                 ELSE 2000)

\* C20, amended: for JSON, XML and AI Training Format the preview is the whole
\* serialized output when that has at most 2000 characters, and otherwise its
\* first 2000 characters followed by "...", 2003 characters in all; for CSV it is
\* the row-count summary.
C20_PreviewFirst2000ThenEllipsis ==
    PreviewCalled =>
        IF fcall.output_format = "CSV"
        THEN fcall.r = <<[csv_rows |-> Len(fcall.csv_data)]>>
        ELSE /\ Len(fcall.text) <= 2000 => fcall.r = fcall.text
             /\ Len(fcall.text) > 2000 =>
                   /\ Len(fcall.r) = 2003
                   /\ SubSeq(fcall.r, 1, 2000) = SubSeq(fcall.text, 1, 2000)
                   /\ SubSeq(fcall.r, 2001, 2003) = <<".", ".", ".">>

\* a serialized output of more than 2000 characters was previewed
C20_Witness ==
    /\ PreviewCalled
    /\ fcall.output_format = "JSON"
    /\ Len(fcall.text) = 2001
    /\ Len(fcall.r) = 2003

\* ------------------------------------------------ claims on the workbook

\* the number of rows of the sheets before sheet i
RECURSIVE RowsBefore(_, _)
RowsBefore(sheets, i) ==
    IF i <= 1 THEN 0 ELSE RowsBefore(sheets, i - 1) + sheets[i - 1].rows

\* the calls of ExcelConverter.extract that returned a record
ExcelExtracted ==
    {n \in DOMAIN ecalls : /\ ecalls[n].converter = "ExcelConverter"
                           /\ "error" \notin DOMAIN ecalls[n].r}

\* C21: an Excel extraction reports total_sheets equal to the number of sheets of
\* the workbook and to the length of `sheets`, and all_data is the rows of every
\* sheet one after the other in sheet order, so that its length is the sum of the
\* sheets' row counts.
C21_AllDataConcatenatesSheets ==
    \A n \in ExcelExtracted :
        LET r == ecalls[n].r
            book == Disk[ecalls[n].path].content.sheets IN
        /\ r.total_sheets = Len(book)
        /\ r.total_sheets = Len(r.sheets)
        /\ \A i \in DOMAIN r.sheets :
              /\ r.sheets[i].rows = Len(book[i].records)
              /\ r.sheets[i].data = book[i].records
              /\ \A j \in 1..r.sheets[i].rows :
                    r.all_data[RowsBefore(r.sheets, i) + j] = r.sheets[i].data[j]
        /\ Len(r.all_data) = RowsBefore(r.sheets, Len(r.sheets) + 1)

\* a workbook of two sheets, of one row and of two rows, was extracted
C21_Witness ==
    \E n \in ExcelExtracted :
        /\ ecalls[n].r.total_sheets = 2
        /\ ecalls[n].r.sheets[1].rows = 1
        /\ ecalls[n].r.sheets[2].rows = 2
        /\ Len(ecalls[n].r.all_data) = 3


\* --------------------------------------------- claims on the per-unit records

\* the per-unit records of an extraction record: its pages, paragraphs, lines or
\* sheets
Units(r) ==
    IF "pages" \in DOMAIN r THEN r.pages
    ELSE IF "paragraphs" \in DOMAIN r THEN r.paragraphs
    ELSE IF "lines" \in DOMAIN r THEN r.lines
    ELSE IF "sheets" \in DOMAIN r THEN r.sheets
    ELSE <<>>

\* the keys under which a per-unit record holds its index, and its text or rows
IndexKeys ==
    {"index", "page_number", "page_index", "paragraph_number", "paragraph_index",
     "line_number", "line_index", "sheet_number", "sheet_index"}
ContentKeys == {"text", "data"}

\* C22: every per-unit record an extractor produces (PDF page, Word paragraph,
\* text line, Excel sheet) carries at least an index, its text or its row data,
\* and a word_count.
C22_UnitsCarryIndexTextWordCount ==
    \A n \in DOMAIN ecalls :
        "error" \notin DOMAIN ecalls[n].r =>
            \A i \in DOMAIN Units(ecalls[n].r) :
                LET unit == Units(ecalls[n].r)[i] IN
                /\ DOMAIN unit \cap IndexKeys # {}
                /\ DOMAIN unit \cap ContentKeys # {}
                /\ "word_count" \in DOMAIN unit

\* the same for the pages of a PDF alone, which carry all three
C22_PdfPagesCarryAll ==
    \A n \in DOMAIN ecalls :
        /\ ecalls[n].converter = "PDFConverter"
        /\ "error" \notin DOMAIN ecalls[n].r
        => \A i \in DOMAIN ecalls[n].r.pages :
              DOMAIN ecalls[n].r.pages[i] = {"page_number", "text", "word_count"}


\* ------------------------------------------- claims on the sequences in XML

\* the tags of an XML text from i on, in order: the name of every start tag, and
\* the name of every end tag after its "/"
RECURSIVE TagTrace(_, _)
TagTrace(text, i) ==
    IF i > Len(text) THEN <<>>
    ELSE IF text[i] # "<" THEN TagTrace(text, i + 1)
    ELSE IF TagEnd(text, i) = 0 THEN <<>>
    ELSE <<SubSeq(text, i + 1, TagEnd(text, i) - 1)>>
             \o TagTrace(text, TagEnd(text, i) + 1)

\* a key with its spaces and hyphens replaced by underscores
Sanitized(key) ==
    [i \in DOMAIN Chars(key) |->
        CASE Chars(key)[i] = " " -> "_"
          [] Chars(key)[i] = "-" -> "_"
          [] OTHER -> Chars(key)[i]]

\* the tags the rule of the sequences asks for: one element per pair, except that
\* a sequence gives one element of the key's tag per item, in item order, and none
\* when it is empty; a mapping encloses the elements of its pairs, anything else
\* is a leaf
RECURSIVE TagsOfPairs(_, _)
RECURSIVE TagsOfItems(_, _, _)
TagsOfValue(tag, value) ==
    IF value.t = "dict"
    THEN <<tag>> \o TagsOfPairs(value.v, 1) \o << <<"/">> \o tag >>
    ELSE <<tag, <<"/">> \o tag>>

TagsOfItems(tag, items, j) ==
    IF j > Len(items) THEN <<>>
    ELSE TagsOfValue(tag, items[j]) \o TagsOfItems(tag, items, j + 1)

TagsOfPairs(d, i) ==
    IF i > Len(d) THEN <<>>
    ELSE (IF d[i].v.t = "list"
          THEN TagsOfItems(Sanitized(d[i].k), d[i].v.v, 1)
          ELSE TagsOfValue(Sanitized(d[i].k), d[i].v))
             \o TagsOfPairs(d, i + 1)

\* a value whose text holds no character of markup
PlainScalar(value) ==
    \A i \in DOMAIN Formatted(value) : Formatted(value)[i] \notin {"<", ">", "&"}

\* the pairs d hold no key None and no markup outside the items of their sequences
\* (items: nor inside them)
RECURSIVE PlainPairs(_, _)
PlainValue(value, items) ==
    CASE value.t = "dict" -> PlainPairs(value.v, items)
      [] value.t = "list" ->
            \A j \in DOMAIN value.v :
                IF value.v[j].t = "dict" THEN PlainPairs(value.v[j].v, items)
                ELSE items => PlainScalar(value.v[j])
      [] OTHER -> PlainScalar(value)

PlainPairs(d, items) ==
    \A i \in DOMAIN d : d[i].k # NoneKey /\ PlainValue(d[i].v, items)

\* a sequence is among the values of the pairs d, at any depth
RECURSIVE HoldsSequence(_)
HoldsSequence(d) ==
    \E i \in DOMAIN d :
        \/ d[i].v.t = "list"
        \/ d[i].v.t = "dict" /\ HoldsSequence(d[i].v.v)

XmlCalled == fcall # <<>> /\ fcall.op = "to_xml"

\* the elements of the output of the call are those the rule asks for
ElementsByRule ==
    /\ fcall.r.raised = ""
    /\ TagTrace(fcall.r.text, Len(XmlDeclaration) + 1)
           = <<Chars(fcall.root_name)>> \o TagsOfPairs(fcall.data, 1)
                 \o << <<"/">> \o Chars(fcall.root_name) >>

\* C23: to_xml renders a key whose value is a sequence of n items as exactly n
\* sibling elements of the key's sanitized tag (spaces and hyphens replaced by
\* underscores), in item order, a mapping item recursed into and any other item a
\* leaf; an empty sequence gives no element, at the top level and at every
\* nested level.
C23_SequenceGivesOneElementPerItem ==
    (XmlCalled /\ HoldsSequence(fcall.data) /\ PlainPairs(fcall.data, FALSE))
        => ElementsByRule

\* the same for the sequences whose items hold no character of markup
C23_PlainSequenceGivesOneElementPerItem ==
    (XmlCalled /\ HoldsSequence(fcall.data) /\ PlainPairs(fcall.data, TRUE))
        => ElementsByRule

\* a nested mapping with an empty sequence and a sequence of three items was
\* rendered as the rule asks
C23_PlainWitness ==
    /\ XmlCalled
    /\ PlainPairs(fcall.data, TRUE)
    /\ \E i \in DOMAIN fcall.data :
          /\ fcall.data[i].v.t = "dict"
          /\ \E j \in DOMAIN fcall.data[i].v.v :
                /\ fcall.data[i].v.v[j].v.t = "list"
                /\ Len(fcall.data[i].v.v[j].v.v) = 3
    /\ \E i \in DOMAIN fcall.data : fcall.data[i].v = List(<<>>)
    /\ ElementsByRule


\* ------------------------------------------- claims on the indentation of XML

\* the number of spaces a line starts with
LeadingSpaces(line) == RunIn(line, 1, {" "})

\* whether the line, past its indentation, is an end tag, a start tag alone, or
\* an element with its text
LineKind(line) ==
    LET rest == SubSeq(line, LeadingSpaces(line) + 1, Len(line)) IN
    IF HasAt(rest, 1, <<"<", "/">>) THEN "close"
    ELSE IF \E i \in DOMAIN rest : HasAt(rest, i, <<"<", "/">>) THEN "leaf"
    ELSE "open"

\* the lines from the i-th on, each with the depth of its element, its indentation
\* and, for an end tag, the indentation of the line of its start tag; open holds
\* the indentations of the start tags not yet closed
RECURSIVE LineLevels(_, _, _)
LineLevels(lines, i, open) ==
    IF i > Len(lines) THEN <<>>
    ELSE LET kind == LineKind(lines[i])
             indent == LeadingSpaces(lines[i]) IN
         CASE kind = "open" ->
                 <<[kind |-> kind, depth |-> Len(open), indent |-> indent,
                    opened |-> indent]>>
                     \o LineLevels(lines, i + 1, Append(open, indent))
           [] kind = "close" /\ open # <<>> ->
                 <<[kind |-> kind, depth |-> Len(open) - 1, indent |-> indent,
                    opened |-> open[Len(open)]]>>
                     \o LineLevels(lines, i + 1, SubSeq(open, 1, Len(open) - 1))
           [] OTHER ->
                 <<[kind |-> kind, depth |-> Len(open), indent |-> indent,
                    opened |-> indent]>>
                     \o LineLevels(lines, i + 1, open)

\* the lines of the output of to_xml after the declaration
XmlLines == LineLevels(Tail(Split(fcall.r.text, "\n")), 1, <<>>)

\* elements at the same depth are indented equally, deeper ones more
IndentFollowsDepth(levels) ==
    \A i, j \in DOMAIN levels :
        (levels[i].kind # "close" /\ levels[j].kind # "close") =>
            /\ levels[i].depth = levels[j].depth => levels[i].indent = levels[j].indent
            /\ levels[i].depth < levels[j].depth => levels[i].indent < levels[j].indent

\* the line of an end tag is indented as the line of its start tag
EndTagsUnderStartTags(levels) ==
    \A i \in DOMAIN levels :
        levels[i].kind = "close" => levels[i].indent = levels[i].opened

\* the calls of to_xml whose data holds no markup, which return lines of elements
PlainXmlCalled ==
    XmlCalled /\ PlainPairs(fcall.data, TRUE) /\ fcall.r.raised = ""

\* C24: in the output of to_xml the indentation of every line reflects the
\* nesting depth of its element: elements at the same depth are indented equally,
\* each level deeper is indented more, and the lines of the start tag and of the
\* end tag of one nested element carry the same indentation.
C24_IndentationReflectsDepth ==
    PlainXmlCalled =>
        /\ IndentFollowsDepth(XmlLines)
        /\ EndTagsUnderStartTags(XmlLines)

\* the part of it on the start tags alone
C24_DeeperIsIndentedMore ==
    PlainXmlCalled => IndentFollowsDepth(XmlLines)


\* ------------------------------------------------- remove_duplicates

\* An item is a string, a number, None or a dict whose keys are single lower-case
\* letters or None and whose values are strings, numbers or None.  PyInt(n) is the
\* int n and PyFloat(n) the float n.0, for n in 0..9.
PyInt(n) == [t |-> "int", v |-> n]
PyFloat(n) == [t |-> "float", v |-> n]

\* repr(value) of a string without quotes, a number or None
Repr(value) ==
    CASE value.t = "str" -> <<"'">> \o Chars(value.v) \o <<"'">>
      [] value.t = "int" -> <<Digits[value.v + 1]>>
      [] value.t = "float" -> <<Digits[value.v + 1], ".", "0">>
      [] OTHER -> <<"N", "o", "n", "e">>

ReprKey(key) ==
    IF key = NoneKey THEN <<"N", "o", "n", "e">> ELSE <<"'">> \o Chars(key) \o <<"'">>

\* str(pairs) for a list of (key, value) tuples
RECURSIVE ReprTuples(_, _)
ReprTuples(pairs, i) ==
    IF i > Len(pairs) THEN <<>>
    ELSE (IF i > 1 THEN <<",", " ">> ELSE <<>>)
             \o <<"(">> \o ReprKey(pairs[i].k) \o <<",", " ">> \o Repr(pairs[i].v)
             \o <<")">> \o ReprTuples(pairs, i + 1)

ReprItems(pairs) == <<"[">> \o ReprTuples(pairs, 1) \o <<"]">>

\* the place of a lower-case letter in the alphabet
LetterIndex(key) == CHOOSE i \in DOMAIN LowerLetters : LowerLetters[i] = key

\* sorted(d.items()): the keys are distinct, so the tuples are ordered by key;
\* comparing the key None with a string raises TypeError
SortRaises(d) == Len(d) > 1 /\ \E i \in DOMAIN d : d[i].k = NoneKey

RECURSIVE SortedItems(_)
InsertItem(pair, sorted) ==
    LET n == Cardinality({i \in DOMAIN sorted :
                             LetterIndex(sorted[i].k) < LetterIndex(pair.k)})
    IN  SubSeq(sorted, 1, n) \o <<pair>> \o SubSeq(sorted, n + 1, Len(sorted))

SortedItems(d) ==
    IF Len(d) <= 1 THEN d
    ELSE InsertItem(d[Len(d)], SortedItems(SubSeq(d, 1, Len(d) - 1)))

\* item_key: str(sorted(item.items())) for a dict, the item itself otherwise; a
\* string is held by its characters
ItemKey(item) ==
    CASE item.t = "dict" -> [t |-> "str", c |-> ReprItems(SortedItems(item.v))]
      [] item.t = "str" -> [t |-> "str", c |-> Chars(item.v)]
      [] OTHER -> item

\* whether two keys are the same member of the set seen: equal strings, equal
\* numbers (1 == 1.0, with the same hash), None and None
KeyEq(a, b) ==
    CASE a.t = "str" /\ b.t = "str" -> a.c = b.c
      [] a.t \in {"int", "float"} /\ b.t \in {"int", "float"} -> a.v = b.v
      [] a.t = "none" /\ b.t = "none" -> TRUE
      [] OTHER -> FALSE

\* the loop of remove_duplicates from the i-th item on
RECURSIVE RemoveDuplicatesFrom(_, _, _, _)
RemoveDuplicatesStep(items, i, seen, result, item_key) ==
    IF \E j \in DOMAIN seen : KeyEq(seen[j], item_key)
    THEN RemoveDuplicatesFrom(items, i + 1, seen, result)
    ELSE RemoveDuplicatesFrom(items, i + 1, Append(seen, item_key),
                              Append(result, items[i]))

RemoveDuplicatesFrom(items, i, seen, result) ==
    IF i > Len(items) THEN [raised |-> "", items |-> result]
    ELSE IF items[i].t = "dict" /\ SortRaises(items[i].v)
    THEN [raised |-> "TypeError", items |-> <<>>]
    ELSE RemoveDuplicatesStep(items, i, seen, result, ItemKey(items[i]))

\* DataCleaner.remove_duplicates(items)
RemoveDuplicates(items) == RemoveDuplicatesFrom(items, 1, <<>>, <<>>)

\* ------------------------------------ specification of remove_duplicates

\* the most items in a list given to remove_duplicates
MaxItems == 3

\* the items the lists are made of
DuplicateItems ==
    <<Str("a"), Str("1"), PyInt(1), PyFloat(1), PyNone,
      Dict(<<[k |-> "a", v |-> Str("1")]>>),
      Str("[('a', '1')]"),
      Dict(<<[k |-> "a", v |-> Str("1")], [k |-> "b", v |-> PyInt(2)]>>),
      Dict(<<[k |-> "b", v |-> PyInt(2)], [k |-> "a", v |-> Str("1")]>>),
      Dict(<<[k |-> "b", v |-> PyFloat(2)], [k |-> "a", v |-> Str("1")]>>),
      Dict(<<[k |-> "a", v |-> Str("3")], [k |-> NoneKey, v |-> Str("5")]>>)>>

ItemLists == UNION {[1..n -> DOMAIN DuplicateItems] : n \in 0..MaxItems}

ItemsOf(picks) == [i \in DOMAIN picks |-> DuplicateItems[picks[i]]]

InitDuplicates ==
    /\ CleanerIdle
    /\ ValidatorIdle
    /\ OrchestratorIdle
    /\ ExtractorsIdle
    /\ FormatterIdle

\* result = remove_duplicates(items), then remove_duplicates(result)
CallRemoveDuplicates ==
    /\ ccalls = <<>>
    /\ \E picks \in ItemLists :
          ccalls' = <<[op |-> "remove_duplicates", items |-> ItemsOf(picks),
                       out |-> RemoveDuplicates(ItemsOf(picks)),
                       again |-> RemoveDuplicates(
                                     RemoveDuplicates(ItemsOf(picks)).items)]>>
    /\ UNCHANGED <<ctext, copts, vfs, vpath, vres, outdir, last, ncalls, ecalls,
                   handles, fcall>>

NextDuplicates == CallRemoveDuplicates

SpecDuplicates == InitDuplicates /\ [][NextDuplicates]_vars

\* ------------------------------------------- claims on remove_duplicates

\* == of two scalars
ScalarEq(a, b) ==
    CASE a.t = "str" /\ b.t = "str" -> Chars(a.v) = Chars(b.v)
      [] a.t \in {"int", "float"} /\ b.t \in {"int", "float"} -> a.v = b.v
      [] a.t = "none" /\ b.t = "none" -> TRUE
      [] OTHER -> FALSE

\* == of two items: two mappings are equal when they hold the same keys with equal
\* values, in any order; a mapping equals no scalar
ItemEq(a, b) ==
    IF a.t = "dict" /\ b.t = "dict"
    THEN /\ Len(a.v) = Len(b.v)
         /\ \A i \in DOMAIN a.v : \E j \in DOMAIN b.v :
               a.v[i].k = b.v[j].k /\ ScalarEq(a.v[i].v, b.v[j].v)
    ELSE a.t # "dict" /\ b.t # "dict" /\ ScalarEq(a, b)

\* the places of the items that equal no earlier item
FirstOccurrences(items) ==
    {i \in DOMAIN items : \A j \in 1..(i - 1) : ~ItemEq(items[j], items[i])}

DuplicatesCalled == ccalls # <<>> /\ ccalls[1].op = "remove_duplicates"

\* the call returned the first occurrences, and the same again from its own result
FirstOccurrencesKept ==
    /\ ccalls[1].out.raised = ""
    /\ ccalls[1].out.items = Pick(ccalls[1].items, FirstOccurrences(ccalls[1].items), 1)
    /\ ccalls[1].again = ccalls[1].out

\* C25: remove_duplicates returns the first occurrence of every distinct item of
\* the input, in first-seen order, and drops an item only when an equal item (for
\* mappings: the same key/value pairs) occurred earlier in the sequence, also in
\* sequences that mix mappings and scalars; applied to its own result it returns
\* it unchanged.
C25_FirstOccurrencesInOrder ==
    DuplicatesCalled => FirstOccurrencesKept

\* the same for the sequences of scalars
C25_FirstOccurrencesOfScalars ==
    (DuplicatesCalled /\ \A i \in DOMAIN ccalls[1].items : ccalls[1].items[i].t # "dict")
        => FirstOccurrencesKept


\* the same for the sequences without a mapping that has the key None
C25_FirstOccurrencesOfSortableItems ==
    (DuplicatesCalled /\ \A i \in DOMAIN ccalls[1].items :
                            ccalls[1].items[i].t = "dict" =>
                                ~SortRaises(ccalls[1].items[i].v))
        => FirstOccurrencesKept

\* --------------------------------------- claims on what process_file returns

\* the results of the calls of process_file the last call made: its own, or those
\* of the files of the batch
FileResults ==
    IF last = <<>> THEN <<>>
    ELSE IF last.op = "process_file" THEN <<last.r>>
    ELSE [i \in DOMAIN last.r.calls |-> last.r.calls[i].r]

\* r is a 4-tuple whose download path is there exactly with the message of
\* success and a file written at that path, and whose preview is empty without it
PathOnlyWithSuccess(r) ==
    /\ {"status", "preview", "download", "stats"} \subseteq DOMAIN r
    /\ (r.download # None) <=>
           /\ r.status.text = "Successfully processed"
           /\ r.status.saved_to = r.download
           /\ r.download \in r.wrote
    /\ r.status.text = "Successfully processed" => r.download # None
    /\ r.download = None => r.preview = <<>>

\* C26: process_file never raises, for any file and any output_format, one outside
\* JSON, CSV, XML and AI Training Format included: it always returns a 4-tuple
\* whose download path is non-null exactly when the status is the message
\* 'Successfully processed' and an artifact was written at that path; in every
\* other outcome the download path is null and the preview is empty.
C26_PathExactlyWithSuccess ==
    /\ \A i \in DOMAIN FileResults : PathOnlyWithSuccess(FileResults[i])
    /\ FileReturnedLast =>
          (last.r.download # None => last.r.download \in DOMAIN outdir)

\* a valid file was asked for in a format outside the four after an artifact had
\* been written: the call reported an error, with no path and no preview
C26_Witness ==
    /\ FileReturnedLast
    /\ last.output_format \notin {"JSON", "CSV", "XML", "AI Training Format"}
    /\ "statistics" \in Range(last.r.trace)
    /\ last.r.status.text = "Error processing file"
    /\ last.r.download = None
    /\ last.r.preview = <<>>
    /\ DOMAIN outdir # {}


\* ----------------------------------------- claims on what cleaning changes

\* the last call was process_file and got past the extraction
ExtractedLast ==
    /\ FileReturnedLast
    /\ last.r.extracted # <<>>
    /\ "error" \notin DOMAIN last.r.extracted[1]

\* cleaning was asked for and the extracted record has a full_text
CleaningApplies ==
    last.o.clean_text /\ "full_text" \in DOMAIN last.r.extracted[1]

\* the full_text the statistics and the output are to be made of
FullTextAfterCleaning ==
    IF CleaningApplies
    THEN CleanText(last.r.extracted[1].full_text, CleaningOptions(last.o))
    ELSE last.r.extracted[1].full_text

\* the record d that was serialized is the extracted record e, but for full_text
OnlyFullTextChanged(d, e) ==
    /\ DOMAIN d = DOMAIN e
    /\ \A f \in DOMAIN e \ {"full_text"} : d[f] = e[f]
    /\ ~CleaningApplies => d = e
    /\ "full_text" \in DOMAIN e => d.full_text = FullTextAfterCleaning

\* the statistics are those of the full_text after cleaning
StatisticsOfCleanedText(stats, e) ==
    IF "full_text" \in DOMAIN e
    THEN /\ stats.text_length = Len(FullTextAfterCleaning)
         /\ stats.word_count = Words(FullTextAfterCleaning)
    ELSE stats.text_length = 0 /\ stats.word_count = 0

\* C27: cleaning in process_file changes only the record's full_text: the texts
\* and word counts of the units, the tables, the tabular rows and the metadata
\* that are serialized are the extracted ones; with clean_text off, or without a
\* full_text, the whole record is serialized unchanged; the statistics reported
\* (text_length, word_count) are computed from the full_text after cleaning.
C27_CleaningChangesOnlyFullText ==
    ExtractedLast =>
        /\ (last.r.download # None /\ last.output_format \in {"JSON", "XML"}) =>
              OnlyFullTextChanged(outdir[last.r.download].data, last.r.extracted[1])
        /\ (last.r.download # None /\ last.output_format = "CSV") =>
              last.r.csv_data = RowsByRule(last.r.extracted[1])
        /\ (last.r.download # None /\ last.output_format = "AI Training Format") =>
              /\ outdir[last.r.download].data.input_text =
                    (IF "full_text" \in DOMAIN last.r.extracted[1]
                     THEN FullTextAfterCleaning ELSE <<>>)
              /\ outdir[last.r.download].data.metadata =
                    (IF "metadata" \in DOMAIN last.r.extracted[1]
                     THEN <<last.r.extracted[1].metadata>> ELSE <<>>)
        /\ last.r.stats # <<>> =>
              StatisticsOfCleanedText(last.r.stats[1], last.r.extracted[1])

\* a PDF whose first page has two spaces in a row and a capital letter was cleaned
\* and written as JSON: the full_text changed, the pages did not
C27_Witness ==
    /\ ExtractedLast
    /\ CleaningApplies
    /\ last.output_format = "JSON"
    /\ last.r.download # None
    /\ "pages" \in DOMAIN last.r.extracted[1]
    /\ outdir[last.r.download].data.full_text # last.r.extracted[1].full_text
    /\ outdir[last.r.download].data.pages = last.r.extracted[1].pages
    /\ CleanText(last.r.extracted[1].pages[1].text, CleaningOptions(last.o))
          # last.r.extracted[1].pages[1].text
    /\ last.r.stats[1].text_length < Len(last.r.extracted[1].full_text)


\* ------------------------------------------------- claims on the dispatch

\* process_file picked a converter for the validated file
Dispatched == Len(vres) = 2

\* the extractor for a type of file, by the label validate_file gives the type
ExtractorOfLabel(label) ==
    CASE label = "PDF Document" -> "PDFConverter"
      [] label \in {"Word Document", "Word Document (Legacy)"} -> "WordConverter"
      [] label \in {"Excel Spreadsheet", "Excel Spreadsheet (Legacy)"} ->
            "ExcelConverter"
      [] label \in {"CSV File", "Text File"} -> "TextConverter"
      [] OTHER -> "none"

\* C28: the dispatch is total on validated files: every extension validate_file
\* accepts (.pdf, .docx, .doc, .xlsx, .xls, .csv, .txt, in any letter case) is
\* mapped by process_file to exactly one extractor, so that the branch
\* 'Unsupported file type' of process_file is never taken once validation passed.
C28_DispatchTotalOnValidated ==
    Dispatched =>
        /\ vres[2].ext \in SUPPORTED_EXTENSIONS
        /\ vres[2].converter # ""
        /\ vres[2].converter = ExtractorOfLabel(vres[1].message.label)

\* a legacy Word document and a PDF whose extension is in capitals
\* were validated and given to their extractors
C28_Witness ==
    /\ Dispatched
    /\ vpath.ext \in {<<".","d","o","c">>, <<".","P","D","F">>}
    /\ vres[2].converter \in {"WordConverter", "PDFConverter"}


\* -------------------------------------------- claims on the URLs left over

\* s holds, at position i, 'http://' or 'https://' followed by a character of a
\* URL: a substring the URL step strips
UrlAt(s, i) ==
    \/ /\ HasAt(s, i, <<"h","t","t","p",":","/","/">>)
       /\ i + 7 <= Len(s)
       /\ s[i + 7] \in UrlChars
    \/ /\ HasAt(s, i, <<"h","t","t","p","s",":","/","/">>)
       /\ i + 8 <= Len(s)
       /\ s[i + 8] \in UrlChars

\* C29: for every text and every option set with remove_urls enabled, the string
\* clean_text returns holds no substring the URL step would strip ('http://' or
\* 'https://' followed by a URL character), whatever the other flags are.
C29_NoUrlLeftWithRemoveUrls ==
    Enabled(copts, "remove_urls") =>
        \A k \in DOMAIN ccalls :
            \A i \in DOMAIN ccalls[k].out : ~UrlAt(ccalls[k].out, i)

\* the same when no later step changes the text: remove_urls is the only step
\* besides the collapsing of spaces
C29_NoUrlLeftWithUrlStepOnly ==
    (/\ Enabled(copts, "remove_urls")
     /\ \A flag \in {"remove_emails", "remove_phone_numbers", "remove_special_chars",
                     "remove_numbers", "lowercase"} : ~Enabled(copts, flag))
        => \A k \in DOMAIN ccalls :
               \A i \in DOMAIN ccalls[k].out : ~UrlAt(ccalls[k].out, i)


\* ------------------------------------------ claims on the table statistics

\* the number of tables of an extraction record
TablesOf(record) == IF "tables" \in DOMAIN record THEN Len(record.tables) ELSE 0

\* the statistics of a call that got as far as get_statistics count the tables of
\* the record and report has_tables exactly when there is one
TableStatistics(r) ==
    r.stats # <<>> =>
        /\ r.stats[1].table_count = TablesOf(r.extracted[1])
        /\ r.stats[1].has_tables <=> (r.stats[1].table_count > 0)

\* C30: for every record, get_statistics reports has_tables = (table_count > 0),
\* table_count being the number of tables of the record; a record whose tables
\* are present but empty reports has_tables false, as features.has_tables of
\* create_ai_training_format does for the same record.
C30_HasTablesIffTableCountPositive ==
    /\ \A i \in DOMAIN FileResults : TableStatistics(FileResults[i])
    /\ (ExtractedLast /\ last.r.download # None
            /\ last.output_format = "AI Training Format") =>
          outdir[last.r.download].data.features.has_tables = last.r.stats[1].has_tables

\* the part of it on the count alone
C30_TableCountIsNumberOfTables ==
    \A i \in DOMAIN FileResults :
        FileResults[i].stats # <<>> =>
            FileResults[i].stats[1].table_count = TablesOf(FileResults[i].extracted[1])


====
